---- MODULE Spec2Model ----
(***************************************************************************)
(* Model of the scientific calculator: the AST-based expression evaluator  *)
(* (expression_evaluator.py), the function registry (functions.py), the    *)
(* unit conversions (units.py) and the result facade (api.py).             *)
(*                                                                         *)
(* Conventions                                                             *)
(*  - An expression string is a sequence of tokens (the output of Python's *)
(*    tokenizer); ast_parse models ast.parse(..., mode="eval") on it.      *)
(*  - A Python number is a record [k, re, im]: its type k ("int", "float", *)
(*    "bool", "complex"), its real part re and its imaginary part im, each *)
(*    a pair <<n, d>> in lowest terms with a positive denominator.         *)
(*    Floats are exact rationals; an irrational result is rounded down to  *)
(*    a grid of 1/Precision.  An operation whose result has a numerator or *)
(*    denominator above MaxMagnitude, or an irrational result for which    *)
(*    the model has no rounding, ends with the pseudo-exception            *)
(*    "OutOfModel": the actions do not take inputs that lead there.        *)
(*  - The outcome of a call is a record [exc, msg, val]: exc is "none" and *)
(*    val the returned value, or exc is the class of the raised exception  *)
(*    and msg its str(), a sequence of text fragments.                     *)
(*  - Two values stand for the numbers outside the rationals: NaN, with    *)
(*    which every comparison is false, and TooLarge, an int above every    *)
(*    float.  Only the direct calls of the registry functions take them.   *)
(*  - An object handed out by the registry is a record [kind, val, shares] *)
(*    where shares names the attributes of the registry it is identical   *)
(*    to.                                                                  *)
(*                                                                         *)
(*  - The last division of a unit conversion and round(x, 5) keep all the  *)
(*    digits of their result: it goes to the caller, nothing is computed   *)
(*    from it.                                                             *)
(*                                                                         *)
(* Specifications: Spec (the evaluator and the unit functions of the api), *)
(* SpecArith (plain arithmetic), SpecFunctions (direct calls of the        *)
(* registry functions), SpecThreads (concurrent calls of get_registry),    *)
(* SpecRegistry (the reading operations of the registry), SpecUnits (the   *)
(* functions of units.py and convert_units), SpecSession (evaluations      *)
(* between conversions and listings) and SpecCalls (calls with failing     *)
(* arguments).                                                             *)
(***************************************************************************)
EXTENDS Integers, Sequences, FiniteSets, TLC

\* ---------------------------------------------------------------- bounds
MaxMagnitude == 10000
Precision == 100

\* ------------------------------------------------------- rational numbers
Abs(x) == IF x < 0 THEN -x ELSE x

RECURSIVE Gcd(_, _)
Gcd(a, b) == IF b = 0 THEN a ELSE Gcd(b, a % b)

\* the real value n/d as a pair in lowest terms, d > 0
Rat(n, d) ==
    LET s == IF d < 0 THEN -1 ELSE 1
        g == Gcd(Abs(n), Abs(d))
    IN  <<(s * n) \div g, (s * d) \div g>>

InRange(q) == Abs(q[1]) <= MaxMagnitude /\ q[2] <= MaxMagnitude

\* a pair that left the model's range
HugeQ == <<0, 0>>
IsHugeQ(q) == q[2] = 0

Clip(q) == IF InRange(q) THEN q ELSE HugeQ

QAdd(a, b) == IF IsHugeQ(a) \/ IsHugeQ(b) THEN HugeQ
              ELSE Clip(Rat(a[1] * b[2] + b[1] * a[2], a[2] * b[2]))
QNeg(a)    == IF IsHugeQ(a) THEN HugeQ ELSE <<-a[1], a[2]>>
QSub(a, b) == QAdd(a, QNeg(b))
QMul(a, b) == IF IsHugeQ(a) \/ IsHugeQ(b) THEN HugeQ
              ELSE Clip(Rat(a[1] * b[1], a[2] * b[2]))
\* b is not zero
QDiv(a, b) == IF IsHugeQ(a) \/ IsHugeQ(b) THEN HugeQ
              ELSE Clip(Rat(a[1] * b[2], a[2] * b[1]))
\* a / b as the last operation of a computation: the result may have more
\* digits than the range of the operations allows, nothing is computed from
\* it.  b is not zero
Magnitude(q)    == IF Abs(q[1]) \div q[2] < MaxMagnitude THEN q ELSE HugeQ
QDivExact(a, b) == IF IsHugeQ(a) \/ IsHugeQ(b) THEN HugeQ
                   ELSE Magnitude(Rat(a[1] * b[2], a[2] * b[1]))
QLess(a, b) == a[1] * b[2] < b[1] * a[2]
QIsInt(a)  == a[2] = 1
QFloor(a)  == a[1] \div a[2]
\* Python's %: the remainder has the sign of the divisor
QMod(a, b) == IF IsHugeQ(a) \/ IsHugeQ(b) THEN HugeQ
              ELSE LET q == Rat(a[1] * b[2], a[2] * b[1])
                   IN  QSub(a, QMul(b, <<QFloor(q), 1>>))

\* a ** e for an integer e >= 0, by squaring
RECURSIVE QPowNat(_, _)
QPowNat(a, e) ==
    IF e = 0 THEN <<1, 1>>
    ELSE IF IsHugeQ(a) THEN HugeQ
    ELSE IF a = <<1, 1>> \/ a = <<0, 1>> THEN a
    ELSE LET h == QPowNat(a, e \div 2)
             s == QMul(h, h)
         IN  IF e % 2 = 0 THEN s ELSE QMul(s, a)

\* b^e <= m for integers b >= 0, e >= 0, m >= 0, without leaving the integers
\* of the checker
RECURSIVE PowLeq(_, _, _)
PowLeq(b, e, m) ==
    IF e = 0 \/ b = 1 THEN 1 <= m
    ELSE IF b = 0 THEN TRUE
    ELSE b <= m /\ PowLeq(b, e - 1, m \div b)

\* the largest r in lo..hi-1 with r^q <= m, given lo^q <= m < hi^q
RECURSIVE IRootIn(_, _, _, _)
IRootIn(m, q, lo, hi) ==
    IF hi - lo <= 1 THEN lo
    ELSE LET mid == (lo + hi) \div 2
         IN  IF PowLeq(mid, q, m) THEN IRootIn(m, q, mid, hi)
             ELSE IRootIn(m, q, lo, mid)
\* the integer q-th root of m >= 0, for q >= 1
IRoot(m, q) == IRootIn(m, q, 0, m + 1)

RECURSIVE IPow(_, _)
IPow(b, e) == IF e = 0 THEN 1 ELSE b * IPow(b, e - 1)

\* a ** (1/q) for a >= 0 and q >= 1: exact if a is a perfect q-th power, else
\* rounded down to the grid of 1/Precision when the integers involved stay
\* within the model's range, else out of the model
QRoot(a, q) ==
    IF IsHugeQ(a) THEN HugeQ
    ELSE LET rn == IRoot(a[1], q)
             rd == IRoot(a[2], q)
         IN  IF QPowNat(<<rn, rd>>, q) = a
             THEN <<rn, rd>>
             ELSE LET room == (MaxMagnitude * MaxMagnitude * 10) \div (IF a[1] = 0 THEN 1 ELSE a[1])
                      r0   == IRoot(room, q)
                  IN  IF r0 < Precision THEN HugeQ
                      ELSE Clip(Rat(IRoot((a[1] * IPow(Precision, q)) \div a[2], q), Precision))

\* --------------------------------------------------------- Python numbers
QZero == <<0, 1>>
QOne  == <<1, 1>>
Num(k, re, im) == [k |-> k, re |-> re, im |-> im]
PyInt(n)       == Num("int", <<n, 1>>, QZero)
PyFloat(n, d)  == Num("float", Rat(n, d), QZero)
PyImag(n)      == Num("complex", QZero, <<n, 1>>)
PyTrue         == Num("bool", QOne, QZero)
NoVal          == Num("none", QZero, QZero)

IsComplex(v) == v.k = "complex"
IsZero(v)    == v.re[1] = 0 /\ v.im[1] = 0

\* float("nan"): every comparison with it is false
NaN      == Num("nan", QZero, QZero)
IsNaN(v) == v.k = "nan"
\* an int above the largest float, such as 10 ** 400: greater than every other
\* number in a comparison, and not convertible to a float
TooLarge      == Num("int", <<1, 0>>, QZero)
IsTooLarge(v) == v.re = <<1, 0>>

\* outcomes of a call
Ok(v)           == [exc |-> "none", msg |-> <<>>, val |-> v]
Raise(cls, msg) == [exc |-> cls, msg |-> msg, val |-> NoVal]
OutOfModel      == Raise("OutOfModel", <<>>)
Mk(k, re, im)   == IF IsHugeQ(re) \/ IsHugeQ(im) THEN OutOfModel ELSE Ok(Num(k, re, im))

\* the type of the result of + - * on two numbers
ArithKind(l, r) ==
    IF IsComplex(l) \/ IsComplex(r) THEN "complex"
    ELSE IF l.k = "float" \/ r.k = "float" THEN "float"
    ELSE "int"

operator_add(l, r) == Mk(ArithKind(l, r), QAdd(l.re, r.re), QAdd(l.im, r.im))
operator_sub(l, r) == Mk(ArithKind(l, r), QSub(l.re, r.re), QSub(l.im, r.im))
operator_mul(l, r) ==
    Mk(ArithKind(l, r),
       QSub(QMul(l.re, r.re), QMul(l.im, r.im)),
       QAdd(QMul(l.re, r.im), QMul(l.im, r.re)))

operator_truediv(l, r) ==
    IF IsZero(r) THEN Raise("ZeroDivisionError", <<"division by zero">>)
    ELSE LET den == QAdd(QMul(r.re, r.re), QMul(r.im, r.im))
             re  == QAdd(QMul(l.re, r.re), QMul(l.im, r.im))
             im  == QSub(QMul(l.im, r.re), QMul(l.re, r.im))
         IN  IF IsHugeQ(den) THEN OutOfModel
             ELSE Mk(IF IsComplex(l) \/ IsComplex(r) THEN "complex" ELSE "float",
                     QDiv(re, den), QDiv(im, den))

operator_mod(l, r) ==
    IF IsComplex(l) \/ IsComplex(r)
    THEN Raise("TypeError", <<"unsupported operand type(s) for %">>)
    ELSE IF IsZero(r) THEN Raise("ZeroDivisionError", <<"modulo by zero">>)
    ELSE Mk(ArithKind(l, r), QMod(l.re, r.re), QZero)

\* c ** e for a complex c and an integer e >= 0
RECURSIVE CPowNat(_, _)
CPowNat(c, e) ==
    IF e = 0 THEN Ok(Num("complex", QOne, QZero))
    ELSE LET h == CPowNat(c, e \div 2)
             s == operator_mul(h.val, h.val)
         IN  IF h.exc # "none" THEN h
             ELSE IF s.exc # "none" \/ e % 2 = 0 THEN s
             ELSE operator_mul(s.val, c)

operator_pow(l, r) ==
    IF IsComplex(l) \/ IsComplex(r) THEN
        IF IsZero(r) THEN Ok(Num("complex", QOne, QZero))
        ELSE IF IsZero(l) THEN
            IF r.im[1] # 0 \/ r.re[1] < 0
            THEN Raise("ZeroDivisionError", <<"0.0 to a negative or complex power">>)
            ELSE Ok(Num("complex", QZero, QZero))
        ELSE IF r.im[1] = 0 /\ QIsInt(r.re) /\ Abs(r.re[1]) <= MaxMagnitude THEN
            LET c == Num("complex", l.re, l.im)
                p == CPowNat(c, Abs(r.re[1]))
            IN  IF p.exc # "none" \/ r.re[1] > 0 THEN p
                ELSE operator_truediv(Num("complex", QOne, QZero), p.val)
        ELSE OutOfModel
    ELSE
        LET b == l.re
            e == r.re
            ints == l.k # "float" /\ r.k # "float"
        IN  IF b[1] = 0 /\ e[1] < 0
            THEN Raise("ZeroDivisionError", <<"0.0 cannot be raised to a negative power">>)
            ELSE IF QIsInt(e) THEN
                IF e[1] >= 0
                THEN Mk(IF ints THEN "int" ELSE "float", QPowNat(b, e[1]), QZero)
                ELSE LET p == QPowNat(b, -e[1])
                     IN  IF IsHugeQ(p) THEN OutOfModel
                         ELSE Mk("float", QDiv(QOne, p), QZero)
            ELSE IF b[1] = 0 THEN Ok(Num("float", QZero, QZero))
            ELSE LET a  == <<Abs(b[1]), b[2]>>
                     pw == QPowNat(a, Abs(e[1]))
                     rt == IF IsHugeQ(pw) THEN HugeQ ELSE QRoot(pw, e[2])
                     m  == IF IsHugeQ(rt) \/ e[1] > 0 THEN rt
                           ELSE IF rt[1] = 0 THEN HugeQ ELSE QDiv(QOne, rt)
                 IN  IF b[1] > 0 THEN Mk("float", m, QZero)
                     \* a negative base with a non-integer exponent: the principal
                     \* complex root; only the half-integer exponents are represented
                     ELSE IF e[2] = 2
                     THEN Mk("complex", QZero, IF e[1] % 4 = 1 THEN m ELSE QNeg(m))
                     ELSE OutOfModel

operator_neg(v) == Mk(IF v.k = "bool" THEN "int" ELSE v.k, QNeg(v.re), QNeg(v.im))
operator_pos(v) == Ok(Num(IF v.k = "bool" THEN "int" ELSE v.k, v.re, v.im))

\* the built-in float(x)
float(v) ==
    IF IsComplex(v)
    THEN Raise("TypeError", <<"float() argument must be a string or a real number, not 'complex'">>)
    ELSE Ok(Num("float", v.re, QZero))

\* the text Python prints for a number, as one fragment
PyStr(v) == ToString(<<v.k, v.re, v.im>>)

\* ------------------------------------------------------------- exceptions
\* the class hierarchy: the calculator's classes (exceptions.py) carry the
\* prefix "calc."; the other names are Python's built-in classes
Parent(cls) ==
    CASE cls \in {"calc.SyntaxError", "calc.DomainError", "calc.DimensionalityError",
                  "calc.EvaluationError", "calc.UnitError"} -> "calc.CalculatorException"
      [] cls = "IndentationError" -> "SyntaxError"
      [] cls \in {"ZeroDivisionError", "OverflowError"} -> "ArithmeticError"
      [] cls \in {"pint.UndefinedUnitError", "pint.DimensionalityError",
                  "pint.OffsetUnitCalculusError", "pint.DefinitionSyntaxError"} -> "pint.PintError"
      [] OTHER -> "Exception"

\* isinstance(e, cls) for an exception e of class exc: what an except clause tests
IsInstance(exc, cls) ==
    /\ exc \notin {"none", "OutOfModel"}
    /\ \/ exc = cls
       \/ Parent(exc) = cls
       \/ Parent(Parent(exc)) = cls
       \/ cls = "Exception"

\* CalculatorException.__init__ and __str__: the message, then the context
\* entries in parentheses
CalculatorException(cls, message, context) ==
    Raise(cls, IF context = <<>> THEN message ELSE message \o <<" (">> \o context \o <<")">>)

\* ----------------------------------------------------- registry functions
\* a comparison of a complex number with < or <= raises TypeError
NotReal(name) == Raise("TypeError", <<name, ": not supported for 'complex'">>)
Negative(v)   == v.re[1] < 0
Positive(v)   == v.re[1] > 0
ToFloat(q)    == Mk("float", q, QZero)
\* float(x) inside a function of the math module, for an int above the floats
FloatOverflow == Raise("OverflowError", <<"int too large to convert to float">>)
DomainError(message) == CalculatorException("calc.DomainError", message, <<>>)

\* the model's value of the constants pi and e, rounded down to the grid
PiDigits == 3141592
EDigits  == 2718281
Digits   == 1000 * 1000
PI == Num("float", Rat((PiDigits * Precision) \div Digits, Precision), QZero)
E  == Num("float", Rat((EDigits * Precision) \div Digits, Precision), QZero)

\* half of the constant pi, as a number of degrees
HalfPi == Num("float", QDiv(PI.re, <<2, 1>>), QZero)
\* the sine of a small angle of a degrees, a * pi / 180, rounded down to the grid
SmallSine(a) == Rat((a[1] * PI.re[1] * Precision) \div (a[2] * PI.re[2] * 180), Precision)

\* math.sin(math.radians(d)) for d degrees: the multiples of 30 degrees, and
\* the angle of pi / 2 degrees
SinDegrees(q) ==
    LET a == QMod(q, <<360, 1>>)
        h == QRoot(<<3, 1>>, 2)
    IN  CASE a \in {<<0, 1>>, <<180, 1>>}  -> QZero
          [] a = HalfPi.re                 -> SmallSine(a)
          [] a \in {<<30, 1>>, <<150, 1>>} -> <<1, 2>>
          [] a \in {<<60, 1>>, <<120, 1>>} -> QDiv(h, <<2, 1>>)
          [] a = <<90, 1>>                 -> QOne
          [] a \in {<<210, 1>>, <<330, 1>>} -> <<-1, 2>>
          [] a \in {<<240, 1>>, <<300, 1>>} -> QNeg(QDiv(h, <<2, 1>>))
          [] a = <<270, 1>>                -> <<-1, 1>>
          [] OTHER                         -> HugeQ

\* sin without the conversion of its argument to radians, the reading C16 excludes
sin_radians(degrees) ==
    IF IsComplex(degrees) THEN NotReal("sin")
    ELSE IF IsNaN(degrees) THEN Ok(NaN)
    ELSE IF IsTooLarge(degrees) THEN FloatOverflow
    ELSE ToFloat(SinDegrees(QDiv(QMul(degrees.re, <<180, 1>>), PI.re)))

sin(degrees) ==
    IF IsComplex(degrees) THEN NotReal("radians")
    ELSE IF IsNaN(degrees) THEN Ok(NaN)
    ELSE IF IsTooLarge(degrees) THEN FloatOverflow
    ELSE ToFloat(SinDegrees(degrees.re))

cos(degrees) ==
    IF IsComplex(degrees) THEN NotReal("radians")
    ELSE IF IsNaN(degrees) THEN Ok(NaN)
    ELSE IF IsTooLarge(degrees) THEN FloatOverflow
    ELSE ToFloat(SinDegrees(QAdd(degrees.re, <<90, 1>>)))

tan(degrees) ==
    IF IsComplex(degrees) THEN NotReal("radians")
    ELSE IF IsNaN(degrees) THEN Ok(NaN)
    ELSE IF IsTooLarge(degrees) THEN FloatOverflow
    ELSE LET sn == SinDegrees(degrees.re)
             cs == SinDegrees(QAdd(degrees.re, <<90, 1>>))
         IN  IF IsHugeQ(sn) \/ IsHugeQ(cs) \/ cs[1] = 0 THEN OutOfModel
             ELSE ToFloat(QDiv(sn, cs))

\* math.degrees(math.asin(x)) for x in [-1, 1]
AsinDegrees(q) ==
    CASE q = QZero    -> QZero
      [] q = QOne     -> <<90, 1>>
      [] q = <<-1, 1>> -> <<-90, 1>>
      [] q = <<1, 2>>  -> <<30, 1>>
      [] q = <<-1, 2>> -> <<-30, 1>>
      [] OTHER         -> HugeQ

asin(x) ==
    IF IsComplex(x) THEN NotReal("<")
    ELSE IF IsNaN(x) THEN Ok(NaN)
    ELSE IF QLess(x.re, <<-1, 1>>) \/ QLess(QOne, x.re)
    THEN DomainError(<<"asin(", PyStr(x), "): input must be between -1 and 1, got ", PyStr(x)>>)
    ELSE ToFloat(AsinDegrees(x.re))

acos(x) ==
    IF IsComplex(x) THEN NotReal("<")
    ELSE IF IsNaN(x) THEN Ok(NaN)
    ELSE IF QLess(x.re, <<-1, 1>>) \/ QLess(QOne, x.re)
    THEN DomainError(<<"acos(", PyStr(x), "): input must be between -1 and 1, got ", PyStr(x)>>)
    ELSE ToFloat(QSub(<<90, 1>>, AsinDegrees(x.re)))

atan(x) ==
    IF IsComplex(x) THEN NotReal("atan")
    ELSE IF IsNaN(x) THEN Ok(NaN)
    ELSE IF IsTooLarge(x) THEN FloatOverflow
    ELSE ToFloat(CASE x.re = QZero     -> QZero
                   [] x.re = QOne      -> <<45, 1>>
                   [] x.re = <<-1, 1>> -> <<-45, 1>>
                   [] OTHER            -> HugeQ)

\* log of x to the base b (x > 0, b > 0, b # 1) where it is an integer
LogRange == 14
LogExact(x, b) ==
    LET ks == {k \in 0..LogRange : QPowNat(b, k) = x \/ QPowNat(b, k) = <<x[2], x[1]>>}
    IN  IF ks = {} THEN HugeQ
        ELSE LET k == CHOOSE k \in ks : TRUE
             IN  IF QPowNat(b, k) = x THEN <<k, 1>> ELSE <<-k, 1>>

log10(x) ==
    IF IsComplex(x) THEN NotReal("<=")
    ELSE IF IsNaN(x) THEN Ok(NaN)
    ELSE IF ~Positive(x)
    THEN DomainError(<<"log10(", PyStr(x), "): input must be positive, got ", PyStr(x)>>)
    ELSE ToFloat(LogExact(x.re, <<10, 1>>))

ln(x) ==
    IF IsComplex(x) THEN NotReal("<=")
    ELSE IF IsNaN(x) THEN Ok(NaN)
    ELSE IF ~Positive(x)
    THEN DomainError(<<"ln(", PyStr(x), "): input must be positive, got ", PyStr(x)>>)
    ELSE ToFloat(LogExact(x.re, E.re))

logn(x, base) ==
    IF IsComplex(x) THEN NotReal("<=")
    ELSE IF ~IsNaN(x) /\ ~Positive(x)
    THEN DomainError(<<"logn(", PyStr(x), ", ", PyStr(base), "): argument must be positive, got ", PyStr(x)>>)
    ELSE IF IsComplex(base) THEN NotReal("<=")
    ELSE IF IsNaN(base) THEN Ok(NaN)
    ELSE IF ~Positive(base)
    THEN DomainError(<<"logn(", PyStr(x), ", ", PyStr(base), "): base must be positive, got ", PyStr(base)>>)
    ELSE IF base.re = QOne
    THEN DomainError(<<"logn(", PyStr(x), ", ", PyStr(base), "): base cannot be 1, got ", PyStr(base)>>)
    ELSE IF IsNaN(x) THEN Ok(NaN)
    ELSE ToFloat(LogExact(x.re, base.re))

exp(x) ==
    IF IsComplex(x) THEN NotReal("exp")
    ELSE IF IsNaN(x) THEN Ok(NaN)
    ELSE IF IsTooLarge(x) THEN FloatOverflow
    ELSE IF ~QIsInt(x.re) THEN OutOfModel
    ELSE LET p == QPowNat(E.re, Abs(x.re[1]))
         IN  IF IsHugeQ(p) THEN OutOfModel
             ELSE ToFloat(IF x.re[1] >= 0 THEN p ELSE QDiv(QOne, p))

\* power with a NaN among its real arguments: no comparison holds, so no
\* check applies, but int(exponent) fails for a negative base
power_nan(base, exponent) ==
    IF IsComplex(base) \/ IsComplex(exponent) THEN OutOfModel
    ELSE IF IsNaN(base)
    THEN IF ~IsNaN(exponent) /\ IsZero(exponent) THEN Ok(PyFloat(1, 1)) ELSE Ok(NaN)
    ELSE IF Negative(base) THEN Raise("ValueError", <<"cannot convert float NaN to integer">>)
    ELSE IF base.re = QOne THEN Ok(PyFloat(1, 1))
    ELSE Ok(NaN)

\* power without its first check, the bug C6 excludes: 0 ** 0 is 1 in Python
power_unchecked(base, exponent) ==
    IF IsNaN(base) \/ IsNaN(exponent) THEN power_nan(base, exponent)
    ELSE IF IsZero(base) /\ IsZero(exponent) THEN operator_pow(base, exponent)
    ELSE IF IsZero(base) /\ IsComplex(exponent) THEN NotReal("<")
    ELSE IF IsZero(base) /\ Negative(exponent)
    THEN DomainError(<<"power(0, ", PyStr(exponent), "): 0 to negative power is undefined">>)
    ELSE IF IsComplex(base) THEN NotReal("<")
    ELSE IF Negative(base) /\ IsComplex(exponent) THEN NotReal("int")
    ELSE IF Negative(base) /\ ~QIsInt(exponent.re)
    THEN DomainError(<<"power(", PyStr(base), ", ", PyStr(exponent),
                       "): negative base with fractional exponent results in complex number">>)
    ELSE operator_pow(base, exponent)

power(base, exponent) ==
    IF IsNaN(base) \/ IsNaN(exponent) THEN power_nan(base, exponent)
    ELSE IF IsZero(base) /\ IsZero(exponent)
    THEN DomainError(<<"power(0, 0): 0^0 is undefined">>)
    ELSE IF IsZero(base) /\ IsComplex(exponent) THEN NotReal("<")
    ELSE IF IsZero(base) /\ Negative(exponent)
    THEN DomainError(<<"power(0, ", PyStr(exponent), "): 0 to negative power is undefined">>)
    ELSE IF IsComplex(base) THEN NotReal("<")
    ELSE IF Negative(base) /\ IsComplex(exponent) THEN NotReal("int")
    ELSE IF Negative(base) /\ ~QIsInt(exponent.re)
    THEN DomainError(<<"power(", PyStr(base), ", ", PyStr(exponent),
                       "): negative base with fractional exponent results in complex number">>)
    ELSE operator_pow(base, exponent)

sqrt(x) ==
    IF IsComplex(x) THEN NotReal("<")
    ELSE IF IsNaN(x) THEN Ok(NaN)
    ELSE IF IsTooLarge(x) THEN FloatOverflow
    ELSE IF Negative(x)
    THEN DomainError(<<"sqrt(", PyStr(x), "): input must be non-negative, got ", PyStr(x)>>)
    ELSE ToFloat(QRoot(x.re, 2))

\* nthroot with a NaN among its real arguments
nthroot_nan(x, n) ==
    IF IsComplex(x) \/ IsComplex(n) THEN OutOfModel
    ELSE IF IsNaN(n)
    THEN IF IsNaN(x) THEN Ok(NaN)
         ELSE IF Negative(x) THEN Raise("ValueError", <<"cannot convert float NaN to integer">>)
         ELSE IF x.re = QOne THEN Ok(PyFloat(1, 1))
         ELSE Ok(NaN)
    ELSE IF IsZero(n) THEN DomainError(<<"nthroot(", PyStr(x), ", 0): root degree cannot be 0">>)
    ELSE IF Negative(n)
    THEN DomainError(<<"nthroot(", PyStr(x), ", ", PyStr(n), "): root degree must be positive, got ", PyStr(n)>>)
    ELSE Ok(NaN)

nthroot(x, n) ==
    IF IsNaN(x) \/ IsNaN(n) THEN nthroot_nan(x, n)
    ELSE IF IsZero(n) THEN DomainError(<<"nthroot(", PyStr(x), ", 0): root degree cannot be 0">>)
    ELSE IF IsComplex(n) THEN NotReal("<")
    ELSE IF Negative(n)
    THEN DomainError(<<"nthroot(", PyStr(x), ", ", PyStr(n), "): root degree must be positive, got ", PyStr(n)>>)
    ELSE IF IsComplex(x) THEN NotReal("<")
    ELSE IF Negative(x) /\ QIsInt(n.re) /\ n.re[1] % 2 = 0
    THEN DomainError(<<"nthroot(", PyStr(x), ", ", PyStr(n), "): even root of negative number is not real">>)
    ELSE LET inv == operator_truediv(PyInt(1), n)
         IN  IF inv.exc # "none" THEN inv
             ELSE IF Negative(x) /\ QIsInt(n.re)
             THEN LET r == operator_pow(Num(x.k, QNeg(x.re), QZero), inv.val)
                  IN  IF r.exc # "none" THEN r ELSE operator_neg(r.val)
             ELSE operator_pow(x, inv.val)

\* the statistical functions take one list; an expression can only pass them
\* a number: "not data" is true of a zero, anything else fails on the first
\* list operation
NotIterable(what) == Raise("TypeError", <<"'number' object ", what>>)
mean(data)     == IF IsZero(data) THEN Ok(PyFloat(0, 1)) ELSE NotIterable("is not iterable")
median(data)   == IF IsZero(data) THEN Ok(PyFloat(0, 1)) ELSE NotIterable("is not iterable")
mode(data)     == IF IsZero(data) THEN Ok(PyFloat(0, 1)) ELSE NotIterable("is not iterable")
variance(data) == NotIterable("has no len()")
stdev(data)    == NotIterable("has no len()")

\* FunctionRegistry._register_builtins: the names registered
Builtins ==
    {"sin", "cos", "tan", "asin", "acos", "atan", "log10", "ln", "logn",
     "exp", "power", "sqrt", "nthroot", "mean", "median", "mode", "stdev", "variance"}

\* the number of positional parameters of the function registered as name
Arity(name) == IF name \in {"logn", "power", "nthroot"} THEN 2 ELSE 1

\* func(*args) for the function registered as name
ApplyFunction(name, args) ==
    IF Len(args) # Arity(name)
    THEN Raise("TypeError", <<name, "() takes a different number of positional arguments">>)
    ELSE CASE name = "sin"      -> sin(args[1])
           [] name = "cos"      -> cos(args[1])
           [] name = "tan"      -> tan(args[1])
           [] name = "asin"     -> asin(args[1])
           [] name = "acos"     -> acos(args[1])
           [] name = "atan"     -> atan(args[1])
           [] name = "log10"    -> log10(args[1])
           [] name = "ln"       -> ln(args[1])
           [] name = "logn"     -> logn(args[1], args[2])
           [] name = "exp"      -> exp(args[1])
           [] name = "power"    -> power(args[1], args[2])
           [] name = "sqrt"     -> sqrt(args[1])
           [] name = "nthroot"  -> nthroot(args[1], args[2])
           [] name = "mean"     -> mean(args[1])
           [] name = "median"   -> median(args[1])
           [] name = "mode"     -> mode(args[1])
           [] name = "stdev"    -> stdev(args[1])
           [] name = "variance" -> variance(args[1])

is_registered(functions, name) == name \in functions

\* ------------------------------------------------------------------ tokens
\* the numeric literals of the model and the value of each
NumberTokens == {"0", "1", "2", "3", "4", "5", "10", "100", "0.5", ".5", "5.", "2j"}
NumberValue(tok) ==
    CASE tok = "0.5" -> PyFloat(1, 2)
      [] tok = ".5"  -> PyFloat(1, 2)
      [] tok = "5."  -> PyFloat(5, 1)
      [] tok = "2j"  -> PyImag(2)
      [] tok = "0"   -> PyInt(0)
      [] tok = "1"   -> PyInt(1)
      [] tok = "2"   -> PyInt(2)
      [] tok = "3"   -> PyInt(3)
      [] tok = "4"   -> PyInt(4)
      [] tok = "5"   -> PyInt(5)
      [] tok = "10"  -> PyInt(10)
      [] tok = "100" -> PyInt(100)
\* the identifiers of the model
NameTokens ==
    Builtins \cup {"pi", "e", "x", "y", "log", "unknown_func", "math"}
StringTokens == {"'a'"}
Whitespace == " "

\* ------------------------------------------------- ast.parse(mode="eval")
\* A node is a tuple whose first element is the name of its ast class:
\*   <<"Constant", value>>            <<"Name", id>>
\*   <<"UnaryOp", op, operand>>       <<"BinOp", op, left, right>>
\*   <<"Call", func, args, keywords>> <<"Attribute", value, attr>>
\*   <<"Subscript", value, slice>>    <<"Compare", left, right>>
\*   <<"BoolOp", left, right>>        <<"List", elts>>   <<"Tuple", elts>>
Parsed(node, next) == [ok |-> TRUE, node |-> node, next |-> next]
NoParse            == [ok |-> FALSE, node |-> <<>>, next |-> 0]
At(ts, i)          == IF i <= Len(ts) THEN ts[i] ELSE "<end>"

BinOpClass(tok) ==
    CASE tok = "+"  -> "Add"
      [] tok = "-"  -> "Sub"
      [] tok = "*"  -> "Mult"
      [] tok = "/"  -> "Div"
      [] tok = "%"  -> "Mod"
      [] tok = "//" -> "FloorDiv"
      [] tok = "**" -> "Pow"
      [] tok = "&"  -> "BitAnd"
UnaryOpClass(tok) ==
    CASE tok = "+" -> "UAdd"
      [] tok = "-" -> "USub"
      [] tok = "~" -> "Invert"

\* Each parsing operator takes the result of the one before it as an argument:
\* l, r, e are records [ok, node, next]; next is the position after the node.
RECURSIVE ParseExpression(_, _), ParseConjunctionRest(_, _), ParseComparison(_, _),
          ParseBitAnd(_, _), ParseBitAndRest(_, _), ParseSum(_, _), ParseSumRest(_, _),
          ParseTerm(_, _), ParseTermRest(_, _), ParseFactor(_, _), ParsePower(_, _),
          ParsePrimary(_, _), ParsePrimaryRest(_, _), ParseAtom(_, _),
          ParseItems(_, _, _, _, _, _)

\* the node of a binary construct, once its right operand r is parsed
Join(class, op, l, r) ==
    IF ~r.ok THEN NoParse
    ELSE IF class = "BinOp" THEN Parsed(<<"BinOp", BinOpClass(op), l.node, r.node>>, r.next)
    ELSE Parsed(<<class, l.node, r.node>>, r.next)

\* items up to the closing token: expressions and '*' expression; in a call also
\* the keywords NAME '=' expression and '**' expression.  A plain positional
\* argument may not follow a keyword, nor any positional one a '**' keyword.
NoItems == [ok |-> FALSE, items |-> <<>>, keywords |-> <<>>, next |-> 0]
IsNamed(ts, i, inCall)  == inCall /\ At(ts, i) \in NameTokens /\ At(ts, i + 1) = "="
IsDouble(ts, i, inCall) == inCall /\ At(ts, i) = "**"
IsStar(ts, i)           == At(ts, i) = "*"
\* the item at position i, whose expression e is parsed
ParseItem(ts, i, close, items, keywords, inCall, e) ==
    LET named    == IsNamed(ts, i, inCall)
        double   == IsDouble(ts, i, inCall)
        star     == IsStar(ts, i)
        unpacked == \E j \in 1..Len(keywords) : keywords[j][1] = "**"
        its == IF named \/ double THEN items
               ELSE IF star THEN Append(items, <<"Starred", e.node>>)
               ELSE Append(items, e.node)
        kws == IF named \/ double THEN Append(keywords, <<ts[i], e.node>>) ELSE keywords
    IN  IF ~e.ok THEN NoItems
        ELSE IF ~named /\ ~double /\ (unpacked \/ (~star /\ keywords # <<>>)) THEN NoItems
        ELSE IF At(ts, e.next) = "," THEN ParseItems(ts, e.next + 1, close, its, kws, inCall)
        ELSE IF At(ts, e.next) = close
        THEN [ok |-> TRUE, items |-> its, keywords |-> kws, next |-> e.next + 1]
        ELSE NoItems
ParseItems(ts, i, close, items, keywords, inCall) ==
    IF At(ts, i) = close
    THEN [ok |-> TRUE, items |-> items, keywords |-> keywords, next |-> i + 1]
    ELSE ParseItem(ts, i, close, items, keywords, inCall,
             IF IsStar(ts, i) /\ ~IsDouble(ts, i, inCall) THEN ParseBitAnd(ts, i + 1)
             ELSE ParseExpression(ts, IF IsNamed(ts, i, inCall) THEN i + 2
                                      ELSE IF IsDouble(ts, i, inCall) THEN i + 1 ELSE i))

\* STRING+: adjacent string literals are one constant
RECURSIVE AfterStrings(_, _)
AfterStrings(ts, i) == IF At(ts, i) \in StringTokens THEN AfterStrings(ts, i + 1) ELSE i

\* the display '[' items ']' or '(' items ')' whose items l are parsed; a tuple
\* of one starred item needs a comma: "( * x )" is not a tuple
Display(class, ts, l) ==
    IF ~l.ok THEN NoParse
    ELSE IF class = "List" THEN Parsed(<<"List", l.items>>, l.next)
    ELSE IF class = "Tuple" \/ Len(l.items) # 1 \/ ts[l.next - 2] = ","
    THEN Parsed(<<"Tuple", l.items>>, l.next)
    ELSE NoParse
\* '(' expression ')' or '(' expression ',' items ')' whose first expression e is parsed
Group(ts, e) ==
    IF ~e.ok THEN NoParse
    ELSE IF At(ts, e.next) = ")" THEN Parsed(e.node, e.next + 1)
    ELSE IF At(ts, e.next) = ","
    THEN Display("Tuple", ts, ParseItems(ts, e.next + 1, ")", <<e.node>>, <<>>, FALSE))
    ELSE NoParse

\* atom: NUMBER | NAME | 'True' | STRING | '(' ... ')' | '[' ... ']'
ParseAtom(ts, i) ==
    LET t == At(ts, i)
    IN  IF t \in NumberTokens THEN Parsed(<<"Constant", NumberValue(t)>>, i + 1)
        ELSE IF t \in NameTokens THEN Parsed(<<"Name", t>>, i + 1)
        ELSE IF t = "True" THEN Parsed(<<"Constant", PyTrue>>, i + 1)
        ELSE IF t \in StringTokens
        THEN Parsed(<<"Constant", Num("str", QZero, QZero)>>, AfterStrings(ts, i))
        ELSE IF t = "[" THEN Display("List", ts, ParseItems(ts, i + 1, "]", <<>>, <<>>, FALSE))
        ELSE IF t = "(" /\ (At(ts, i + 1) = ")" \/ At(ts, i + 1) = "*")
        THEN Display("StarTuple", ts, ParseItems(ts, i + 1, ")", <<>>, <<>>, FALSE))
        ELSE IF t = "(" THEN Group(ts, ParseExpression(ts, i + 1))
        ELSE NoParse

\* primary: atom, then any number of  '(' arguments ')',  '.' NAME,  '[' expression ']'
CallNode(l, a) ==
    IF a.ok THEN Parsed(<<"Call", l.node, a.items, a.keywords>>, a.next) ELSE NoParse
SubscriptNode(ts, l, e) ==
    IF e.ok /\ At(ts, e.next) = "]" THEN Parsed(<<"Subscript", l.node, e.node>>, e.next + 1)
    ELSE NoParse
ParsePrimaryRest(ts, l) ==
    IF ~l.ok THEN NoParse
    ELSE IF At(ts, l.next) = "("
    THEN ParsePrimaryRest(ts, CallNode(l, ParseItems(ts, l.next + 1, ")", <<>>, <<>>, TRUE)))
    ELSE IF At(ts, l.next) = "." THEN
        IF At(ts, l.next + 1) \in NameTokens
        THEN ParsePrimaryRest(ts, Parsed(<<"Attribute", l.node, ts[l.next + 1]>>, l.next + 2))
        ELSE NoParse
    ELSE IF At(ts, l.next) = "["
    THEN ParsePrimaryRest(ts, SubscriptNode(ts, l, ParseExpression(ts, l.next + 1)))
    ELSE l
ParsePrimary(ts, i) == ParsePrimaryRest(ts, ParseAtom(ts, i))

\* power: primary ['**' factor]
PowerRest(ts, l) ==
    IF l.ok /\ At(ts, l.next) = "**" THEN Join("BinOp", "**", l, ParseFactor(ts, l.next + 1))
    ELSE l
ParsePower(ts, i) == PowerRest(ts, ParsePrimary(ts, i))

\* factor: ('+' | '-' | '~') factor | power
UnaryNode(op, f) ==
    IF f.ok THEN Parsed(<<"UnaryOp", UnaryOpClass(op), f.node>>, f.next) ELSE NoParse
ParseFactor(ts, i) ==
    IF At(ts, i) \in {"+", "-", "~"} THEN UnaryNode(ts[i], ParseFactor(ts, i + 1))
    ELSE ParsePower(ts, i)

\* term: term ('*' | '/' | '//' | '%') factor | factor
ParseTermRest(ts, l) ==
    IF l.ok /\ At(ts, l.next) \in {"*", "/", "//", "%"}
    THEN ParseTermRest(ts, Join("BinOp", ts[l.next], l, ParseFactor(ts, l.next + 1)))
    ELSE l
ParseTerm(ts, i) == ParseTermRest(ts, ParseFactor(ts, i))

\* sum: sum ('+' | '-') term | term
ParseSumRest(ts, l) ==
    IF l.ok /\ At(ts, l.next) \in {"+", "-"}
    THEN ParseSumRest(ts, Join("BinOp", ts[l.next], l, ParseTerm(ts, l.next + 1)))
    ELSE l
ParseSum(ts, i) == ParseSumRest(ts, ParseTerm(ts, i))

\* bitwise_and: bitwise_and '&' sum | sum
ParseBitAndRest(ts, l) ==
    IF l.ok /\ At(ts, l.next) = "&"
    THEN ParseBitAndRest(ts, Join("BinOp", "&", l, ParseSum(ts, l.next + 1)))
    ELSE l
ParseBitAnd(ts, i) == ParseBitAndRest(ts, ParseSum(ts, i))

\* comparison: bitwise_and ('<' bitwise_and)*
CompareRest(ts, l) ==
    IF l.ok /\ At(ts, l.next) = "<" THEN Join("Compare", "<", l, ParseComparison(ts, l.next + 1))
    ELSE l
ParseComparison(ts, i) == CompareRest(ts, ParseBitAnd(ts, i))

\* conjunction: comparison ('and' comparison)*
ParseConjunctionRest(ts, l) ==
    IF l.ok /\ At(ts, l.next) = "and"
    THEN ParseConjunctionRest(ts, Join("BoolOp", "and", l, ParseComparison(ts, l.next + 1)))
    ELSE l
ParseExpression(ts, i) == ParseConjunctionRest(ts, ParseComparison(ts, i))

\* the tokens without the whitespace between them
RECURSIVE Strip(_)
Strip(ts) ==
    IF ts = <<>> THEN <<>>
    ELSE IF Head(ts) = Whitespace THEN Strip(Tail(ts))
    ELSE <<Head(ts)>> \o Strip(Tail(ts))

\* ast.parse(expression, mode="eval"): the body of the Expression node, or
\* Python's built-in SyntaxError (IndentationError for leading whitespace)
\* the end of the input after the first expression e: nothing, or the further
\* items of a tuple without parentheses
TopLevelTuple(l) ==
    IF l.ok THEN Ok(<<"Tuple", l.items>>) ELSE Raise("SyntaxError", <<"invalid syntax">>)
ParseEnd(ts, e) ==
    IF ~e.ok THEN Raise("SyntaxError", <<"invalid syntax">>)
    ELSE IF e.next = Len(ts) + 1 THEN Ok(e.node)
    ELSE IF At(ts, e.next) = ","
    THEN TopLevelTuple(ParseItems(ts \o <<"<eof>">>, e.next + 1, "<eof>", <<e.node>>, <<>>, FALSE))
    ELSE Raise("SyntaxError", <<"invalid syntax">>)
ast_parse(expression) ==
    IF expression # <<>> /\ Head(expression) = Whitespace
    THEN Raise("IndentationError", <<"unexpected indent">>)
    ELSE ParseEnd(Strip(expression), ParseExpression(Strip(expression), 1))

\* ------------------------------------------------ SafeExpressionEvaluator
OPERATORS       == {"Add", "Sub", "Mult", "Div", "Mod", "Pow"}
UNARY_OPERATORS == {"UAdd", "USub"}

operator_func(op, left, right) ==
    CASE op = "Add"  -> operator_add(left, right)
      [] op = "Sub"  -> operator_sub(left, right)
      [] op = "Mult" -> operator_mul(left, right)
      [] op = "Div"  -> operator_truediv(left, right)
      [] op = "Mod"  -> operator_mod(left, right)
      [] op = "Pow"  -> operator_pow(left, right)

unary_operator_func(op, operand) ==
    IF op = "UAdd" THEN operator_pos(operand) ELSE operator_neg(operand)

visit_Constant(node) ==
    IF node[2].k \notin {"int", "bool", "float", "complex"}
    THEN CalculatorException("calc.SyntaxError", <<"Only numeric constants are allowed">>,
                             <<"type: ", node[2].k>>)
    ELSE Ok(node[2])

\* visit_Name with the context looked up before the constants, the bug C8 excludes
visit_Name_context_first(node, context) ==
    LET name == node[2]
    IN  IF name \in DOMAIN context THEN Ok(context[name])
        ELSE IF name = "pi" THEN Ok(PI)
        ELSE IF name = "e" THEN Ok(E)
        ELSE CalculatorException("calc.SyntaxError", <<"Unknown variable: ", name>>,
                                 <<"variable: ", name>>)

visit_Name(node, context) ==
    LET name == node[2]
    IN  IF name = "pi" THEN Ok(PI)
        ELSE IF name = "e" THEN Ok(E)
        ELSE IF name \notin DOMAIN context
        THEN CalculatorException("calc.SyntaxError", <<"Unknown variable: ", name>>,
                                 <<"variable: ", name>>)
        ELSE Ok(context[name])

generic_visit(node) ==
    CalculatorException("calc.SyntaxError", <<"Unsupported expression type: ", node[1]>>,
                        <<"node_type: ", node[1]>>)

RECURSIVE visit(_, _, _), visit_args(_, _, _, _)

\* [self.visit(arg) for arg in node.args]: left to right, the first exception
\* ends it; val is the list of the values
visit_arg(args, context, functions, done, a) ==
    IF a.exc # "none" THEN a
    ELSE visit_args(Tail(args), context, functions, Append(done, a.val))
visit_args(args, context, functions, done) ==
    IF args = <<>> THEN Ok(done)
    ELSE visit_arg(args, context, functions, done, visit(Head(args), context, functions))

\* visit_BinOp: the except clauses around the operator call, whose outcome is r
visit_BinOp_except(node, left, right, r) ==
    IF IsInstance(r.exc, "ZeroDivisionError") THEN r
    ELSE IF IsInstance(r.exc, "Exception")
    THEN CalculatorException("calc.EvaluationError", <<"Binary operation failed: ">> \o r.msg,
             <<"left: ", PyStr(left), " | right: ", PyStr(right), " | operator: ", node[2]>>)
    ELSE r
\* visit_BinOp with the operands handed to the operator in the wrong order, the
\* bug C9 excludes
visit_BinOp_operands_swapped(node, left, right) ==
    IF left.exc # "none" THEN left
    ELSE IF right.exc # "none" THEN right
    ELSE IF node[2] \notin OPERATORS
    THEN CalculatorException("calc.SyntaxError",
             <<"Unsupported binary operator: ", node[2]>>, <<"operator: ", node[2]>>)
    ELSE visit_BinOp_except(node, left.val, right.val,
                            operator_func(node[2], right.val, left.val))
\* visit_BinOp once its operands are visited, with the outcomes left and right
visit_BinOp_operands(node, left, right) ==
    IF left.exc # "none" THEN left
    ELSE IF right.exc # "none" THEN right
    ELSE IF node[2] \notin OPERATORS
    THEN CalculatorException("calc.SyntaxError",
             <<"Unsupported binary operator: ", node[2]>>, <<"operator: ", node[2]>>)
    ELSE visit_BinOp_except(node, left.val, right.val,
                            operator_func(node[2], left.val, right.val))
visit_BinOp(node, context, functions) ==
    visit_BinOp_operands(node, visit(node[3], context, functions),
                         visit(node[4], context, functions))

\* visit_UnaryOp once its operand is visited
visit_UnaryOp_operand(node, operand) ==
    IF operand.exc # "none" THEN operand
    ELSE IF node[2] \notin UNARY_OPERATORS
    THEN CalculatorException("calc.SyntaxError",
             <<"Unsupported unary operator: ", node[2]>>, <<"operator: ", node[2]>>)
    ELSE unary_operator_func(node[2], operand.val)
visit_UnaryOp(node, context, functions) ==
    visit_UnaryOp_operand(node, visit(node[3], context, functions))

\* visit_Call: the except clause around the function call, whose outcome is r
visit_Call_except(func_name, r) ==
    IF IsInstance(r.exc, "Exception")
    THEN CalculatorException("calc.EvaluationError", <<"Function call failed: ", func_name>>,
             <<"function: ", func_name, " | error: ">> \o r.msg)
    ELSE r
\* visit_Call once its arguments are visited; the keywords of the node are not looked at
visit_Call_args(func_name, args) ==
    IF args.exc # "none" THEN args
    ELSE visit_Call_except(func_name, ApplyFunction(func_name, args.val))
\* visit_Call visiting the arguments before it looks the name up, the bug C26
\* excludes
visit_Call_lookup_last(func_name, functions, args) ==
    IF args.exc # "none" THEN args
    ELSE IF ~is_registered(functions, func_name)
    THEN CalculatorException("calc.SyntaxError", <<"Unknown function: ", func_name>>,
                             <<"function: ", func_name>>)
    ELSE visit_Call_args(func_name, args)
visit_Call_arguments_first(node, context, functions) ==
    IF node[2][1] # "Name"
    THEN CalculatorException("calc.SyntaxError", <<"Only simple function calls are allowed">>,
                             <<"expression: ", "<unparsed call>">>)
    ELSE visit_Call_lookup_last(node[2][2], functions,
                                visit_args(node[3], context, functions, <<>>))
visit_Call(node, context, functions) ==
    IF node[2][1] # "Name"
    THEN CalculatorException("calc.SyntaxError", <<"Only simple function calls are allowed">>,
                             <<"expression: ", "<unparsed call>">>)
    ELSE IF ~is_registered(functions, node[2][2])
    THEN CalculatorException("calc.SyntaxError", <<"Unknown function: ", node[2][2]>>,
                             <<"function: ", node[2][2]>>)
    ELSE visit_Call_args(node[2][2], visit_args(node[3], context, functions, <<>>))

\* ast.NodeVisitor.visit: the method visit_<class>, or generic_visit
visit(node, context, functions) ==
    CASE node[1] = "BinOp"    -> visit_BinOp(node, context, functions)
      [] node[1] = "UnaryOp"  -> visit_UnaryOp(node, context, functions)
      [] node[1] = "Call"     -> visit_Call(node, context, functions)
      [] node[1] = "Constant" -> visit_Constant(node)
      [] node[1] = "Name"     -> visit_Name(node, context)
      [] OTHER                -> generic_visit(node)

\* SafeExpressionEvaluator.evaluate: the except clauses around self.visit(tree),
\* whose outcome is r
evaluate_except(r) ==
    IF IsInstance(r.exc, "ZeroDivisionError")
    THEN CalculatorException("calc.EvaluationError", <<"Division by zero">>,
             <<"expression: ", "<expression>">>)
    ELSE IF IsInstance(r.exc, "Exception")
    THEN CalculatorException("calc.EvaluationError", <<"Evaluation error: ">> \o r.msg,
             <<"expression: ", "<expression>">>)
    ELSE r
\* SafeExpressionEvaluator.evaluate once ast.parse has ended with the outcome tree.
\* The name SyntaxError in the except clause around ast.parse is the calculator's
\* class (the import of line 19 hides the built-in one), so that clause catches
\* nothing ast.parse raises.
evaluate_tree(tree, context, functions) ==
    IF IsInstance(tree.exc, "calc.SyntaxError")
    THEN CalculatorException("calc.SyntaxError", <<"Invalid expression syntax">>,
             <<"expression: ", "<expression>", " | error: ">> \o tree.msg)
    ELSE IF tree.exc # "none" THEN tree
    ELSE evaluate_except(visit(tree.val, context, functions))
evaluate(expression, context, functions) ==
    evaluate_tree(ast_parse(expression), context, functions)

\* ----------------------------------------------------------------- units
\* The unit names of the model and what pint's default registry makes of them:
\* the dimension, the factor to the base unit, and whether the unit has an
\* offset.  "xyz" is not defined, "5" parses to a plain number and "" to the
\* dimensionless quantity 1.  pint's names are case sensitive: "C", "F", "c"
\* and "k" are the coulomb, the farad, the speed of light and the Boltzmann
\* constant, and "Celsius", "FAHRENHEIT" and "f" are not defined.
UnitNames ==
    {"meter", "kilometer", "mile", "gram", "kilogram", "liter", "second", "celsius",
     "fahrenheit", "kelvin", "Celsius", "FAHRENHEIT", "C", "F", "K", "c", "f", "k", "xyz",
     "5", ""}

Unit(dim, factor, offset) == [dim |-> dim, factor |-> factor, offset |-> offset]

\* registry(name): pint's UnitRegistry.__call__.  pint's own definitions have
\* these names too, so a registry whose setup stopped half way answers for them
\* as the complete one does
ureg(name) ==
    CASE name = "meter"      -> Ok(Unit("[length]", <<1, 1>>, FALSE))
      [] name = "kilometer"  -> Ok(Unit("[length]", <<1000, 1>>, FALSE))
      [] name = "mile"       -> Ok(Unit("[length]", <<201168, 125>>, FALSE))
      [] name = "gram"       -> Ok(Unit("[mass]", <<1, 1000>>, FALSE))
      [] name = "kilogram"   -> Ok(Unit("[mass]", <<1, 1>>, FALSE))
      [] name = "liter"      -> Ok(Unit("[length] ** 3", <<1, 1000>>, FALSE))
      [] name = "second"     -> Ok(Unit("[time]", <<1, 1>>, FALSE))
      [] name = "celsius"    -> Ok(Unit("[temperature]", <<1, 1>>, TRUE))
      [] name = "fahrenheit" -> Ok(Unit("[temperature]", <<5, 9>>, TRUE))
      [] name \in {"kelvin", "K"} -> Ok(Unit("[temperature]", <<1, 1>>, FALSE))
      [] name = "C"          -> Ok(Unit("[current] * [time]", <<1, 1>>, FALSE))
      [] name = "F"          -> Ok(Unit("[capacitance]", <<1, 1>>, FALSE))
      [] name = "c"          -> Ok(Unit("[length] / [time]", HugeQ, FALSE))
      [] name = "k"          -> Ok(Unit("[energy] / [temperature]", HugeQ, FALSE))
      [] name = ""           -> Ok(Unit("dimensionless", <<1, 1>>, FALSE))
      [] name = "5"          -> Ok(Unit("number", <<5, 1>>, FALSE))
      [] OTHER -> Raise("pint.UndefinedUnitError", <<"'", name, "' is not defined in the unit registry">>)

\* unit names compared as they are written, the bug C21 excludes
Lower_case_sensitive(name) == name
\* str.lower()
Lower(name) ==
    CASE name = "C" -> "c"
      [] name = "F" -> "f"
      [] name = "K" -> "k"
      [] name = "Celsius" -> "celsius"
      [] name = "FAHRENHEIT" -> "fahrenheit"
      [] OTHER -> name

\* units.get_registry: the registry after the call and the call's outcome.  The
\* singleton is assigned before _setup_units runs; setup_ok tells whether every
\* registry.define of _setup_units is accepted by the installed pint
get_registry(registry, setup_ok) ==
    IF registry # "None" THEN [registry |-> registry, out |-> Ok(registry)]
    ELSE IF setup_ok THEN [registry |-> "ready", out |-> Ok("ready")]
    ELSE [registry |-> "partial",
          out |-> Raise("pint.DefinitionSyntaxError", <<"velocity = [length] / [time]">>)]

Celsius    == {"celsius", "c"}
Fahrenheit == {"fahrenheit", "f"}
Kelvin     == {"kelvin", "k"}
KelvinOffset == <<5463, 20>>

\* quantity.to(to_unit).magnitude for quantity = value * registry(from_unit),
\* given the outcomes of registry(from_unit) and of parsing to_unit
PintTo(value, from_unit, to_unit, from_qty, to_qty) ==
    IF from_qty.exc # "none" THEN from_qty
    ELSE IF from_qty.val.offset
    THEN Raise("pint.OffsetUnitCalculusError",
               <<"Ambiguous operation with offset unit (", from_unit, ")">>)
    ELSE IF from_qty.val.dim = "number"
    THEN Raise("AttributeError", <<"'float' object has no attribute 'to'">>)
    ELSE IF to_qty.exc # "none" THEN to_qty
    ELSE IF to_qty.val.dim = "number" \/ to_qty.val.dim # from_qty.val.dim
    THEN Raise("pint.DimensionalityError",
               <<"Cannot convert from '", from_unit, "' to '", to_unit, "'">>)
    ELSE ToFloat(QDivExact(QMul(value.re, from_qty.val.factor), to_qty.val.factor))
PintConvert(value, from_unit, to_unit) ==
    PintTo(value, from_unit, to_unit, ureg(from_unit), ureg(to_unit))

\* units.convert: the except clauses around the pint calls, whose outcome is r.
\* The name DimensionalityError in the last clause is the calculator's class, so
\* that clause catches nothing pint raises.
convert_except(from_unit, to_unit, r) ==
    IF IsInstance(r.exc, "pint.UndefinedUnitError")
    THEN CalculatorException("calc.UnitError", <<"Unknown unit">>, <<"invalid_unit: ">> \o r.msg)
    ELSE IF IsInstance(r.exc, "calc.DimensionalityError")
    THEN CalculatorException("calc.DimensionalityError",
             <<"Cannot convert ", from_unit, " to ", to_unit, ": incompatible dimensions">>,
             <<"from_unit: ", from_unit, " | to_unit: ", to_unit>>)
    ELSE r

\* the temperature formulas of units.convert, for the lower-case names f and t
ConvertTemperature(v, f, t) ==
    LET celsius == QDiv(QMul(QSub(v, <<32, 1>>), <<5, 1>>), <<9, 1>>)
    IN  IF f \in Celsius /\ t \in Fahrenheit THEN QAdd(QDiv(QMul(v, <<9, 1>>), <<5, 1>>), <<32, 1>>)
        ELSE IF f \in Fahrenheit /\ t \in Celsius THEN celsius
        ELSE IF f \in Celsius /\ t \in Kelvin THEN QAdd(v, KelvinOffset)
        ELSE IF f \in Kelvin /\ t \in Celsius THEN QSub(v, KelvinOffset)
        ELSE IF f \in Fahrenheit /\ t \in Kelvin THEN QAdd(celsius, KelvinOffset)
        ELSE QAdd(QDiv(QMul(QSub(v, KelvinOffset), <<9, 1>>), <<5, 1>>), <<32, 1>>)
IsTemperaturePair(f, t) ==
    \/ f \in Celsius /\ t \in Fahrenheit \cup Kelvin
    \/ f \in Fahrenheit /\ t \in Celsius \cup Kelvin
    \/ f \in Kelvin /\ t \in Celsius \cup Fahrenheit

\* units.convert; reg is the result of its get_registry() call
convert(value, from_unit, to_unit, reg) ==
    IF reg.out.exc # "none" THEN reg.out
    ELSE IF IsTemperaturePair(Lower(from_unit), Lower(to_unit))
    THEN ToFloat(ConvertTemperature(value.re, Lower(from_unit), Lower(to_unit)))
    ELSE convert_except(from_unit, to_unit, PintConvert(value, from_unit, to_unit))

\* registry(from_unit).dimensionality == registry(to_unit).dimensionality
SameDimensionality(from_qty, to_qty) ==
    IF from_qty.exc # "none" THEN from_qty
    ELSE IF to_qty.exc # "none" THEN to_qty
    ELSE IF from_qty.val.dim = "number" \/ to_qty.val.dim = "number"
    THEN Raise("AttributeError", <<"'int' object has no attribute 'dimensionality'">>)
    ELSE Ok(from_qty.val.dim = to_qty.val.dim)
\* units.is_compatible: the except clause around the pint calls, whose outcome is r
is_compatible_except(from_unit, to_unit, r) ==
    IF IsInstance(r.exc, "Exception")
    THEN CalculatorException("calc.UnitError", <<"Invalid unit">>,
             <<"from_unit: ", from_unit, " | to_unit: ", to_unit, " | error: ">> \o r.msg)
    ELSE r
\* units.is_compatible; reg is the result of its get_registry() call
is_compatible(from_unit, to_unit, reg) ==
    LET temp_units == Celsius \cup Fahrenheit \cup Kelvin
    IN  IF reg.out.exc # "none" THEN reg.out
        ELSE IF Lower(from_unit) \in temp_units /\ Lower(to_unit) \in temp_units THEN Ok(TRUE)
        ELSE is_compatible_except(from_unit, to_unit,
                                  SameDimensionality(ureg(from_unit), ureg(to_unit)))

\* units.get_conversion_factor once is_compatible has ended with the outcome compatible
get_conversion_factor_compatible(from_unit, to_unit, reg, compatible) ==
    IF compatible.exc # "none" THEN compatible
    ELSE IF ~compatible.val
    THEN CalculatorException("calc.DimensionalityError",
             <<"Cannot get conversion factor: ", from_unit, " and ", to_unit, " are incompatible">>,
             <<"from_unit: ", from_unit, " | to_unit: ", to_unit>>)
    ELSE convert(Num("float", QOne, QZero), from_unit, to_unit, reg)
\* units.get_conversion_factor; reg is the result of the first get_registry() call
get_conversion_factor(from_unit, to_unit, reg) ==
    get_conversion_factor_compatible(from_unit, to_unit, reg,
                                     is_compatible(from_unit, to_unit, reg))

\* ------------------------------------------------------------------- api
None      == [none |-> TRUE, text |-> <<>>]
Text(msg) == [none |-> FALSE, text |-> msg]

\* functions.get_registry: the singleton FunctionRegistry, created on first use
\* FunctionRegistry._register_builtins: the description registered with a name
Description(name) ==
    CASE name = "sin"      -> "Sine function (input in degrees)"
      [] name = "cos"      -> "Cosine function (input in degrees)"
      [] name = "tan"      -> "Tangent function (input in degrees)"
      [] name = "asin"     -> "Arcsine function (output in degrees, domain: [-1, 1])"
      [] name = "acos"     -> "Arccosine function (output in degrees, domain: [-1, 1])"
      [] name = "atan"     -> "Arctangent function (output in degrees)"
      [] name = "log10"    -> "Base-10 logarithm (domain: x > 0)"
      [] name = "ln"       -> "Natural logarithm (domain: x > 0)"
      [] name = "logn"     -> "Logarithm with arbitrary base (domain: x > 0, base > 0, base # 1)"
      [] name = "exp"      -> "Exponential function (e^x)"
      [] name = "power"    -> "Power function (x^y)"
      [] name = "sqrt"     -> "Square root (domain: x >= 0)"
      [] name = "nthroot"  -> "nth root function"
      [] name = "mean"     -> "Mean/average of values"
      [] name = "median"   -> "Median of values"
      [] name = "mode"     -> "Mode (most frequent value)"
      [] name = "stdev"    -> "Sample standard deviation (requires >= 2 values)"
      [] name = "variance" -> "Sample variance (requires >= 2 values)"

\* FunctionRegistry(): the instance with the identity id; functions maps a name
\* to the function registered under it, descriptions is _descriptions
FunctionRegistry(id) ==
    [created |-> TRUE, names |-> Builtins, id |-> id,
     functions |-> [n \in Builtins |-> n], descriptions |-> [n \in Builtins |-> Description(n)]]
NoRegistry == [created |-> FALSE, names |-> {}, id |-> 0, functions |-> <<>>, descriptions |-> <<>>]
get_function_registry(registry) ==
    IF registry.created THEN registry ELSE FunctionRegistry(1)

\* an object handed to the caller: shares names the attributes of the registry
\* that are this very object, so that a change of it is a change of them
Object(kind, val, shares) == [kind |-> kind, val |-> val, shares |-> shares]
Fresh(kind, val) == Object(kind, val, {})
NoObject == Fresh("none", <<>>)

\* FunctionRegistry.get
get(registry, name) ==
    IF name \in DOMAIN registry.functions THEN Fresh("function", registry.functions[name])
    ELSE NoObject

\* list_all handing out _descriptions itself instead of a copy, which C18 excludes
list_all_shared(registry) == Object("mapping", registry.descriptions, {"descriptions"})

\* FunctionRegistry.list_all
list_all(registry) == Fresh("mapping", registry.descriptions)

\* FunctionRegistry.list_by_category
list_by_category(registry) ==
    Fresh("mapping",
          [c \in {"trigonometric", "logarithmic", "exponential", "statistical"} |->
              CASE c = "trigonometric" -> <<"sin", "cos", "tan", "asin", "acos", "atan">>
                [] c = "logarithmic"   -> <<"log10", "ln", "logn">>
                [] c = "exponential"   -> <<"exp", "power", "sqrt", "nthroot">>
                [] c = "statistical"   -> <<"mean", "median", "mode", "stdev", "variance">>])

\* api.list_functions
list_functions(registry) == list_by_category(registry)

\* api.get_function_info
get_function_info_dict(func_name, all_funcs) ==
    Fresh("mapping", [name |-> func_name,
                      description |-> IF func_name \in DOMAIN all_funcs.val
                                      THEN all_funcs.val[func_name] ELSE ""])
get_function_info(registry, func_name) ==
    IF ~is_registered(DOMAIN registry.functions, func_name) THEN NoObject
    ELSE get_function_info_dict(func_name, list_all(registry))

\* the caller changes a mapping it was handed: d[key] = item, or del d[key]
SetItem(d, key, item) == [k \in DOMAIN d \cup {key} |-> IF k = key THEN item ELSE d[k]]
DelItem(d, key)       == [k \in DOMAIN d \ {key} |-> d[k]]
\* the registry after a change of an object that shares attributes with it
Shared(registry, shares, val) ==
    [registry EXCEPT !.descriptions = IF "descriptions" \in shares THEN val ELSE @,
                     !.functions = IF "functions" \in shares THEN val ELSE @,
                     !.names = IF "functions" \in shares THEN DOMAIN val ELSE @]

\* the first decimal places of r / d, for r < d, as an integer, and what is
\* left of r behind them
RECURSIVE Decimals(_, _, _)
Decimals(r, d, places) ==
    IF places = 0 THEN <<0, r>>
    ELSE LET p == Decimals(r, d, places - 1)
         IN  <<p[1] * 10 + (p[2] * 10) \div d, (p[2] * 10) % d>>
\* round(x, 5) cutting the digits behind the fifth decimal place
round_down(v) ==
    LET a == Abs(v.re[1])
        d == v.re[2]
        m == (a \div d) * 100000 + Decimals(a % d, d, 5)[1]
    IN  ToFloat(Rat(IF v.re[1] < 0 THEN -m ELSE m, 100000))
\* round(x, 5): to the nearest multiple of 1/100000, a tie to the even one.  The
\* result is the caller's, nothing is computed from it
round(v) ==
    LET a == Abs(v.re[1])
        d == v.re[2]
        p == Decimals(a % d, d, 5)
        q == (a \div d) * 100000 + p[1]
        m == IF 2 * p[2] > d \/ (2 * p[2] = d /\ q % 2 = 1) THEN q + 1 ELSE q
    IN  ToFloat(Rat(IF v.re[1] < 0 THEN -m ELSE m, 100000))

\* {}
NoContext == [n \in {} |-> NoVal]
\* SafeExpressionEvaluator(): the attributes of the new evaluator, given those of
\* the evaluator the call before made.  The two variants are a context that the
\* evaluators share and a context with an entry from the start, the bugs C25
\* and C27 exclude
SafeExpressionEvaluator_shared(previous) == previous
SafeExpressionEvaluator_defaults(previous) == [context |-> [n \in {"x"} |-> PyInt(0)]]
SafeExpressionEvaluator(previous) == [context |-> NoContext]
\* evaluate_expression: if context: evaluator.context = context.  The attribute
\* then is the caller's mapping itself
evaluate_expression_context(evaluator, context) ==
    IF context # NoContext THEN [context |-> context] ELSE evaluator

\* An api function is a try block and its except clauses: <name>_try is what the
\* try block returns or raises, <name>_except what the function then returns.

\* evaluate_expression: return {"result": float(result), "error": None}
evaluate_expression_return(f) ==
    IF f.exc # "none" THEN f ELSE Ok([result |-> f.val, error |-> None])
evaluate_expression_float(result) ==
    IF result.exc # "none" THEN result ELSE evaluate_expression_return(float(result.val))
evaluate_expression_try(expression, context, functions) ==
    evaluate_expression_float(evaluate(expression, context, functions))
evaluate_expression_except(t) ==
    IF IsInstance(t.exc, "calc.SyntaxError") \/ IsInstance(t.exc, "calc.EvaluationError")
    THEN Ok([result |-> NoVal, error |-> Text(t.msg)])
    ELSE IF IsInstance(t.exc, "Exception")
    THEN Ok([result |-> NoVal, error |-> Text(<<"Unexpected error: ">> \o t.msg)])
    ELSE t

ConvertResult(result, from_unit, to_unit, error) ==
    Ok([result |-> result, from_unit |-> from_unit, to_unit |-> to_unit, error |-> error])

\* convert_units: the return of the rounded result
convert_units_round(from_unit, to_unit, rounded) ==
    IF rounded.exc # "none" THEN rounded
    ELSE ConvertResult(rounded.val, from_unit, to_unit, None)
convert_units_return(from_unit, to_unit, result) ==
    IF result.exc # "none" THEN result
    ELSE convert_units_round(from_unit, to_unit, round(result.val))
\* convert_units returning the value it was given next to the error when the
\* units are incompatible, the bug C1 excludes
convert_units_compatible_partial(value, from_unit, to_unit, reg, compatible) ==
    IF compatible.exc # "none" THEN compatible
    ELSE IF ~compatible.val
    THEN ConvertResult(value, from_unit, to_unit,
             Text(<<"Cannot convert ", from_unit, " to ", to_unit, ": incompatible units">>))
    ELSE convert_units_return(from_unit, to_unit, convert(value, from_unit, to_unit, reg))
\* convert_units once is_compatible has ended with the outcome compatible
convert_units_compatible(value, from_unit, to_unit, reg, compatible) ==
    IF compatible.exc # "none" THEN compatible
    ELSE IF ~compatible.val
    THEN ConvertResult(NoVal, from_unit, to_unit,
             Text(<<"Cannot convert ", from_unit, " to ", to_unit, ": incompatible units">>))
    ELSE convert_units_return(from_unit, to_unit, convert(value, from_unit, to_unit, reg))
\* reg is the result of the first get_registry() call
convert_units_try(value, from_unit, to_unit, reg) ==
    convert_units_compatible(value, from_unit, to_unit, reg,
                             is_compatible(from_unit, to_unit, reg))
convert_units_except(from_unit, to_unit, t) ==
    IF IsInstance(t.exc, "calc.UnitError")
    THEN ConvertResult(NoVal, from_unit, to_unit, Text(t.msg))
    ELSE IF IsInstance(t.exc, "calc.DimensionalityError")
    THEN ConvertResult(NoVal, from_unit, to_unit, Text(t.msg))
    ELSE IF IsInstance(t.exc, "Exception")
    THEN ConvertResult(NoVal, from_unit, to_unit, Text(<<"Unexpected error: ">> \o t.msg))
    ELSE t

CompatibilityResult(compatible, from_unit, to_unit, error) ==
    Ok([compatible |-> compatible, from_unit |-> from_unit, to_unit |-> to_unit,
        error |-> error])

\* check_unit_compatibility
check_unit_compatibility_return(from_unit, to_unit, compatible) ==
    IF compatible.exc # "none" THEN compatible
    ELSE CompatibilityResult(compatible.val, from_unit, to_unit, None)
check_unit_compatibility_try(from_unit, to_unit, reg) ==
    check_unit_compatibility_return(from_unit, to_unit, is_compatible(from_unit, to_unit, reg))
check_unit_compatibility_except(from_unit, to_unit, t) ==
    IF IsInstance(t.exc, "calc.CalculatorException")
    THEN CompatibilityResult(FALSE, from_unit, to_unit, Text(t.msg))
    ELSE IF IsInstance(t.exc, "Exception")
    THEN CompatibilityResult(FALSE, from_unit, to_unit, Text(<<"Unexpected error: ">> \o t.msg))
    ELSE t

FactorResult(factor, from_unit, to_unit, error) ==
    Ok([factor |-> factor, from_unit |-> from_unit, to_unit |-> to_unit, error |-> error])

\* get_conversion_factor_api
get_conversion_factor_api_return(from_unit, to_unit, factor) ==
    IF factor.exc # "none" THEN factor
    ELSE FactorResult(factor.val, from_unit, to_unit, None)
get_conversion_factor_api_try(from_unit, to_unit, reg) ==
    get_conversion_factor_api_return(from_unit, to_unit,
                                     get_conversion_factor(from_unit, to_unit, reg))
\* get_conversion_factor_api without its last except clause, the bug C2 excludes
get_conversion_factor_api_except_calculator_only(from_unit, to_unit, t) ==
    IF IsInstance(t.exc, "calc.UnitError") \/ IsInstance(t.exc, "calc.DimensionalityError")
    THEN FactorResult(NoVal, from_unit, to_unit, Text(t.msg))
    ELSE t
get_conversion_factor_api_except(from_unit, to_unit, t) ==
    IF IsInstance(t.exc, "calc.UnitError") \/ IsInstance(t.exc, "calc.DimensionalityError")
    THEN FactorResult(NoVal, from_unit, to_unit, Text(t.msg))
    ELSE IF IsInstance(t.exc, "Exception")
    THEN FactorResult(NoVal, from_unit, to_unit, Text(<<"Unexpected error: ">> \o t.msg))
    ELSE t

\* ---------------------------------------------------------------- inputs
MaxLen == 4

RECURSIVE SeqsUpTo(_, _)
SeqsUpTo(S, n) ==
    IF n = 0 THEN {<<>>}
    ELSE LET shorter == SeqsUpTo(S, n - 1)
         IN  shorter \cup {Append(ts, t) : ts \in {x \in shorter : Len(x) = n - 1}, t \in S}

Binary(A, Ops, B) == {a \o <<o>> \o b : a \in A, o \in Ops, b \in B}
Unary(Ops, A)     == {<<o>> \o a : o \in Ops, a \in A}
Call1(F, A)       == {<<f, "(">> \o a \o <<")">> : f \in F, a \in A}
Call2(F, A, B)    == {<<f, "(">> \o a \o <<",">> \o b \o <<")">> : f \in F, a \in A, b \in B}
Paren(A)          == {<<"(">> \o a \o <<")">> : a \in A}
Operators         == {"+", "-", "*", "/", "%", "**"}

\* every string of at most MaxLen tokens of plain arithmetic, well formed or not,
\* and strings with blanks
ArithTokens  == {"2", "3", "+", "-", "*", "/", "%", "**", "(", ")"}
ArithStrings == SeqsUpTo(ArithTokens, MaxLen)
BlankStrings ==
    {<<Whitespace>>, <<Whitespace, Whitespace>>, <<Whitespace, "2">>, <<"2", Whitespace>>,
     <<"2", Whitespace, "+", Whitespace, "3">>, <<"2", Whitespace, "+">>}

\* well-formed arithmetic: two operands, each a literal, a signed literal, a
\* binary operation or a parenthesised binary operation, joined by an operator
ArithLiterals == {<<"2">>, <<"3">>, <<"0">>}
ArithOperands ==
    LET operations == Binary(ArithLiterals \ {<<"0">>}, Operators, ArithLiterals \ {<<"0">>})
    IN  ArithLiterals \cup Unary({"-", "+"}, {<<"2">>}) \cup Unary({"-"}, {<<"-", "3">>})
            \cup operations \cup Paren(operations)
ArithExpressions == Binary(ArithOperands, Operators, ArithOperands)

\* expressions over the whole grammar, built by nesting
Atoms ==
    {<<t>> : t \in {"0", "1", "2", "4", "100", "0.5", "2j", "x", "y", "pi", "e", "True", "'a'"}}
        \cup {<<"-", "1">>, <<"-", "4">>}
Arguments == {<<"0">>, <<"1">>, <<"2">>, <<"100">>, <<"-", "1">>, <<"x">>}
Callees   == Builtins \cup {"log", "unknown_func"}
Disallowed ==
    Binary(Arguments, {"<", "and", "&", "//"}, Arguments)
        \cup {<<"[">> \o a \o <<"]">> : a \in Arguments}
        \cup {<<"(">> \o a \o <<",", ")">> : a \in Arguments}
        \cup {<<"~">> \o a : a \in Arguments}
        \cup Call1({"math", "x"}, Arguments)
        \cup {<<"math", ".", "sqrt", "(">> \o a \o <<")">> : a \in Arguments}
        \cup {<<"sqrt", "(", "4", ")", "(">> \o a \o <<")">> : a \in Arguments}
        \cup {<<"x", "[">> \o a \o <<"]">> : a \in Arguments}
        \cup {<<"sqrt", "(", "4", ",", "x", "=">> \o a \o <<")">> : a \in Arguments}
        \cup {<<"sqrt", "(", "x", "=">> \o a \o <<")">> : a \in Arguments}
        \cup {<<"sqrt", "(", "4", ",", "**">> \o a \o <<")">> : a \in Arguments}
        \cup {<<"power", "(", "*", "[">> \o a \o <<",", "2", "]", ")">> : a \in Arguments}
\* strings that ast.parse rejects
Malformed ==
    {<<>>, <<"2", "+">>, <<"(", "2", "+", "3">>, <<"2", "+", "3", ")">>,
     <<"2", "*", "*", "3">>, <<Whitespace>>, <<Whitespace, "2">>, <<"x", "+">>}
\* literals with a bare dot
BareDecimals ==
    {<<".5">>, <<"5.">>, <<".5", "+", "2">>, <<"5.", "+", "2">>, <<"2", "*", ".5">>}
\* calls of the statistical functions with several arguments
Statistics ==
    Call2({"mean", "median", "mode", "variance", "stdev"}, Arguments, Arguments)
        \cup {<<"mean", "(", "1", ",", "2", ",", "3", ")">>,
              <<"mean", "(", "1", ",", "2", ",", "3", ",", "4", ",", "5", ")">>,
              <<"mean", "(", "mean", "(", "1", ",", "2", ")", ",",
                "mean", "(", "3", ",", "4", ")", ")">>,
              <<"mean", "(", "1", ",", "2", ",", "3", ")", "*", "5">>,
              <<"sqrt", "(", "mean", "(", "1", ",", "4", ")", ")">>}
\* expressions whose value in Python is not real
ComplexValued ==
    {<<"(", "-", "4", ")", "**", "0.5">>, <<"(", "-", "1", ")", "**", "0.5">>,
     <<"nthroot", "(", "-", "4", ",", "2", "/", "3", ")">>,
     <<"2", "+", "2j">>, <<"2j", "*", "2j">>}
Inner ==
    Atoms \cup Binary(Arguments, Operators, Arguments) \cup Call1(Callees, Arguments)
        \cup Disallowed
Simple ==
    Inner \cup Binary(Atoms, Operators, Atoms) \cup Call1(Callees, Atoms)
        \cup Call2({"power", "logn", "nthroot", "log", "sqrt", "unknown_func"}, Arguments, Arguments)
Nested ==
    Call1({"sqrt", "log10"}, Inner)
        \cup Binary({<<"1">>}, {"+", "/"}, Paren(Inner))
        \cup Binary(Paren(Inner), {"*", "%"}, {<<"0">>, <<"2">>})
        \cup Call1({"sqrt"}, Call1({"sqrt"}, Binary(Arguments, {"/", "%", "+"}, Arguments)))
Expressions ==
    Simple \cup Nested \cup Malformed \cup BareDecimals \cup Statistics \cup ComplexValued

\* calls whose arguments fail in different ways: a division by zero, an unknown
\* variable, a call outside the domain of its function
FailingArguments ==
    {<<"1", "/", "0">>, <<"y">>, <<"x">>, <<"2">>, <<"0">>, <<"sqrt", "(", "-", "1", ")">>}
Callees1 == {"sqrt", "unknown_func"}
Callees2 == {"power", "logn", "unknown_func"}
CallsInOrder ==
    FailingArguments \cup Call1(Callees1, FailingArguments)
        \cup Call2(Callees2, FailingArguments, FailingArguments)

\* contexts: none, one that binds x, one that also binds pi and e
Contexts ==
    {NoContext,
     [n \in {"x"} |-> PyInt(3)],
     [n \in {"x", "pi", "e"} |-> IF n = "x" THEN PyFloat(1, 2) ELSE PyInt(7)]}

\* the pairs <<expression, context>> of the expressions of a set: an expression
\* without an identifier is paired with the empty context only
HasName(e) == \E i \in 1..Len(e) : e[i] \in {"x", "y", "pi", "e"}
Inputs(expressions) ==
    {<<e, NoContext>> : e \in expressions}
        \cup {<<e, c>> : e \in {x \in expressions : HasName(x)}, c \in Contexts \ {NoContext}}

Values == {PyInt(0), PyInt(1), PyInt(5), PyInt(32), PyInt(100), PyFloat(-81, 2), PyFloat(5463, 20)}

\* the arguments of a direct call of a registry function: the boundaries of
\* the domains and their neighbours, the angles and values of the tables, NaN
Reals ==
    {PyInt(n) : n \in {-8, -4, -2, -1, 0, 1, 2, 3, 4, 8, 10, 30, 45, 60, 90, 100, 180}}
        \cup {PyFloat(-101, 100), PyFloat(-1, 2), PyFloat(1, 100), PyFloat(1, 4), PyFloat(1, 2),
              PyFloat(101, 100), PyFloat(3, 2), PyFloat(3, 1), E, PI, HalfPi}
Floats == Reals \cup {NaN}
ScalarFunctions == {f \in Builtins : f \notin {"mean", "median", "mode", "stdev", "variance"}}
Arguments1 == {<<x>> : x \in Floats \cup {TooLarge}}
Arguments2 == {<<x, y>> : x \in Floats, y \in Floats}
Calls ==
    {<<f, a>> : f \in {g \in ScalarFunctions : Arity(g) = 1}, a \in Arguments1}
        \cup {<<f, a>> : f \in {g \in ScalarFunctions : Arity(g) = 2}, a \in Arguments2}

\* ---------------------------------------------------------- state machine
\* the threads that call functions.get_registry
NumThreads == 3
Threads == 1..NumThreads

\* no call remembered
NoCall == [set |-> FALSE, expression |-> <<>>, context |-> NoContext, outcome |-> Ok(NoVal)]

VARIABLES
    pc,                 \* "idle" before a call, "done" after it
    op,                 \* the operation called
    expression,         \* its arguments
    context,
    value,
    from_unit,
    to_unit,
    args,               \* the arguments of a function called directly
    function_registry,  \* functions._registry
    unit_registry,      \* units._registry: "None", "partial" or "ready"
    raised,             \* what the try block of the api function returned or raised
    outcome,            \* what the call returned or raised
    threads,            \* where each thread is inside functions.get_registry
    instances,          \* the number of FunctionRegistry objects constructed
    received,           \* the identities of the registries get_registry returned
    returned,           \* the object a call of the registry handed to the caller
    changed,            \* whether the caller has changed an object it was handed
    evaluator,          \* the attributes of the evaluator the last evaluation made
    first               \* an earlier call of evaluate_expression the caller remembers

vars == <<pc, op, expression, context, value, from_unit, to_unit, args,
          function_registry, unit_registry, raised, outcome, threads, instances, received, returned, changed,
          evaluator, first>>

Init ==
    /\ pc = "idle"
    /\ op = "none"
    /\ expression = <<>>
    /\ context = NoContext
    /\ value = PyInt(0)
    /\ from_unit = ""
    /\ to_unit = ""
    /\ args = <<>>
    /\ function_registry = NoRegistry
    /\ unit_registry = "None"
    /\ raised = Ok(NoVal)
    /\ outcome = Ok(NoVal)
    /\ threads = [t \in Threads |-> [pc |-> "test", made |-> 0]]
    /\ instances = 0
    /\ received = {}
    /\ returned = NoObject
    /\ changed = FALSE
    /\ evaluator = [context |-> NoContext]
    /\ first = NoCall

\* the end of a call: t is what the try block of the api function returned or
\* raised (for the evaluator, what evaluate did), result what the call returns
Return(operation, t, result) ==
    /\ result.exc # "OutOfModel"
    /\ pc' = "done"
    /\ op' = operation
    /\ raised' = t
    /\ outcome' = result

\* SafeExpressionEvaluator().evaluate(expression), with the context set before
EvaluateReturn(result) == Return("evaluate", result, result)
Evaluate(inputs) ==
    /\ pc = "idle"
    /\ \E input \in inputs :
        /\ EvaluateReturn(evaluate(input[1], input[2],
                                   get_function_registry(function_registry).names))
        /\ expression' = input[1]
        /\ context' = input[2]
        /\ evaluator' = [context |-> input[2]]
        /\ function_registry' = get_function_registry(function_registry)
        /\ UNCHANGED <<value, from_unit, to_unit, args, unit_registry, threads, instances, received, returned, changed, first>>

\* api.evaluate_expression(expression, context)
EvaluateExpressionReturn(t) == Return("evaluate_expression", t, evaluate_expression_except(t))
EvaluateExpression(inputs) ==
    /\ pc = "idle"
    /\ \E input \in inputs :
        /\ EvaluateExpressionReturn(
               evaluate_expression_try(input[1],
                   evaluate_expression_context(SafeExpressionEvaluator(evaluator), input[2]).context,
                   get_function_registry(function_registry).names))
        /\ expression' = input[1]
        /\ context' = input[2]
        /\ evaluator' = evaluate_expression_context(SafeExpressionEvaluator(evaluator), input[2])
        /\ function_registry' = get_function_registry(function_registry)
        /\ UNCHANGED <<value, from_unit, to_unit, args, unit_registry, threads, instances, received, returned, changed, first>>

\* api.convert_units(value, from_unit, to_unit)
ConvertUnitsReturn(f, t, tr) == Return("convert_units", tr, convert_units_except(f, t, tr))
ConvertUnitsOf(values, names) ==
    /\ pc = "idle"
    /\ \E v \in values, f \in names, t \in names, setup_ok \in BOOLEAN :
        /\ ConvertUnitsReturn(f, t,
               convert_units_try(v, f, t, get_registry(unit_registry, setup_ok)))
        /\ value' = v
        /\ from_unit' = f
        /\ to_unit' = t
        /\ unit_registry' = get_registry(unit_registry, setup_ok).registry
        /\ UNCHANGED <<expression, context, args, function_registry, threads, instances, received, returned, changed, evaluator, first>>

ConvertUnits == ConvertUnitsOf(Values, UnitNames)

\* api.check_unit_compatibility(from_unit, to_unit)
CheckUnitCompatibilityReturn(f, t, tr) ==
    Return("check_unit_compatibility", tr, check_unit_compatibility_except(f, t, tr))
CheckUnitCompatibility ==
    /\ pc = "idle"
    /\ \E f \in UnitNames, t \in UnitNames, setup_ok \in BOOLEAN :
        /\ CheckUnitCompatibilityReturn(f, t,
               check_unit_compatibility_try(f, t, get_registry(unit_registry, setup_ok)))
        /\ from_unit' = f
        /\ to_unit' = t
        /\ unit_registry' = get_registry(unit_registry, setup_ok).registry
        /\ UNCHANGED <<expression, context, value, args, function_registry, threads, instances, received, returned, changed, evaluator, first>>

\* api.get_conversion_factor_api(from_unit, to_unit)
GetConversionFactorApiReturn(f, t, tr) ==
    Return("get_conversion_factor_api", tr, get_conversion_factor_api_except(f, t, tr))
GetConversionFactorApi ==
    /\ pc = "idle"
    /\ \E f \in UnitNames, t \in UnitNames, setup_ok \in BOOLEAN :
        /\ GetConversionFactorApiReturn(f, t,
               get_conversion_factor_api_try(f, t, get_registry(unit_registry, setup_ok)))
        /\ from_unit' = f
        /\ to_unit' = t
        /\ unit_registry' = get_registry(unit_registry, setup_ok).registry
        /\ UNCHANGED <<expression, context, value, args, function_registry, threads, instances, received, returned, changed, evaluator, first>>

\* functions.get_registry().get(name)(*args): a registry function called directly
CallFunctionReturn(result) == Return("call", result, result)
CallFunction ==
    /\ pc = "idle"
    /\ \E call \in Calls :
        /\ CallFunctionReturn(ApplyFunction(call[1], call[2]))
        /\ expression' = <<call[1]>>
        /\ args' = call[2]
        /\ function_registry' = get_function_registry(function_registry)
        /\ UNCHANGED <<context, value, from_unit, to_unit, unit_registry, threads, instances, received, returned, changed, evaluator, first>>

\* what get_registry() raised, if it did
Setup(reg) == IF reg.out.exc = "none" THEN Ok(NoVal) ELSE reg.out

\* units.convert(value, from_unit, to_unit)
ConvertReturn(reg, result) == Return("convert", Setup(reg), result)
Convert ==
    /\ pc = "idle"
    /\ \E v \in Values, f \in UnitNames, t \in UnitNames, setup_ok \in BOOLEAN :
        /\ ConvertReturn(get_registry(unit_registry, setup_ok),
                         convert(v, f, t, get_registry(unit_registry, setup_ok)))
        /\ value' = v
        /\ from_unit' = f
        /\ to_unit' = t
        /\ unit_registry' = get_registry(unit_registry, setup_ok).registry
        /\ UNCHANGED <<expression, context, args, function_registry, threads, instances, received, returned, changed, evaluator, first>>

\* units.is_compatible(from_unit, to_unit); the bool it returns is the value
\* of the outcome
Bool(r) == IF r.exc # "none" THEN r ELSE Ok(Num("bool", IF r.val THEN QOne ELSE QZero, QZero))
IsCompatibleReturn(reg, result) == Return("is_compatible", Setup(reg), Bool(result))
IsCompatible ==
    /\ pc = "idle"
    /\ \E f \in UnitNames, t \in UnitNames, setup_ok \in BOOLEAN :
        /\ IsCompatibleReturn(get_registry(unit_registry, setup_ok),
                              is_compatible(f, t, get_registry(unit_registry, setup_ok)))
        /\ from_unit' = f
        /\ to_unit' = t
        /\ unit_registry' = get_registry(unit_registry, setup_ok).registry
        /\ UNCHANGED <<expression, context, value, args, function_registry, threads, instances, received, returned, changed, evaluator, first>>

\* units.get_conversion_factor(from_unit, to_unit)
GetConversionFactorReturn(reg, result) == Return("get_conversion_factor", Setup(reg), result)
GetConversionFactor ==
    /\ pc = "idle"
    /\ \E f \in UnitNames, t \in UnitNames, setup_ok \in BOOLEAN :
        /\ GetConversionFactorReturn(get_registry(unit_registry, setup_ok),
               get_conversion_factor(f, t, get_registry(unit_registry, setup_ok)))
        /\ from_unit' = f
        /\ to_unit' = t
        /\ unit_registry' = get_registry(unit_registry, setup_ok).registry
        /\ UNCHANGED <<expression, context, value, args, function_registry, threads, instances, received, returned, changed, evaluator, first>>

\* the caller goes on to its next call: the registries of the two modules stay
\* as the calls before left them
Continue ==
    /\ pc = "done"
    /\ pc' = "idle"
    /\ op' = "none"
    /\ expression' = <<>>
    /\ context' = NoContext
    /\ value' = PyInt(0)
    /\ from_unit' = ""
    /\ to_unit' = ""
    /\ args' = <<>>
    /\ returned' = NoObject
    /\ raised' = Ok(NoVal)
    /\ outcome' = Ok(NoVal)
    /\ UNCHANGED <<function_registry, unit_registry, threads, instances, received, changed, evaluator>>
NextCall == Continue /\ UNCHANGED first
\* the same, the caller keeping the arguments and the result of the
\* evaluate_expression call that has just returned
KeepResult ==
    /\ op = "evaluate_expression"
    /\ Continue
    /\ first' = [set |-> TRUE, expression |-> expression, context |-> context, outcome |-> outcome]

\* a session over the whole grammar and the unit functions
Next ==
    \/ Evaluate(Inputs(Expressions))
    \/ EvaluateExpression(Inputs(Expressions))
    \/ ConvertUnits
    \/ CheckUnitCompatibility
    \/ GetConversionFactorApi
    \/ NextCall
Spec == Init /\ [][Next]_vars

\* a session over every string of plain arithmetic
NextArith ==
    \/ Evaluate(Inputs(ArithExpressions \cup ArithStrings \cup BlankStrings))
    \/ EvaluateExpression(Inputs(ArithStrings \cup BlankStrings))
SpecArith == Init /\ [][NextArith]_vars

\* functions.get_registry in thread t, one step at a time: a thread may be
\* suspended between any two of them
\* "if _registry is None"
GetRegistryTest(t) ==
    /\ threads[t].pc = "test"
    /\ threads' = [threads EXCEPT ![t].pc = IF function_registry.created THEN "return" ELSE "construct"]
    /\ UNCHANGED <<function_registry, instances, received>>
\* "FunctionRegistry()"
GetRegistryConstruct(t) ==
    /\ threads[t].pc = "construct"
    /\ instances' = instances + 1
    /\ threads' = [threads EXCEPT ![t] = [pc |-> "store", made |-> instances + 1]]
    /\ UNCHANGED <<function_registry, received>>
\* "_registry = ..."
GetRegistryStore(t) ==
    /\ threads[t].pc = "store"
    /\ function_registry' = FunctionRegistry(threads[t].made)
    /\ threads' = [threads EXCEPT ![t].pc = "return"]
    /\ UNCHANGED <<instances, received>>
\* "return _registry"; the thread then goes on to its next call
GetRegistryReturn(t) ==
    /\ threads[t].pc = "return"
    /\ received' = received \cup {function_registry.id}
    /\ threads' = [threads EXCEPT ![t].pc = "test"]
    /\ UNCHANGED <<function_registry, instances>>
GetRegistry(t) ==
    /\ \/ GetRegistryTest(t)
       \/ GetRegistryConstruct(t)
       \/ GetRegistryStore(t)
       \/ GetRegistryReturn(t)
    /\ UNCHANGED <<pc, op, expression, context, value, from_unit, to_unit, args,
                   unit_registry, raised, outcome, returned, changed, evaluator, first>>

\* threads that call get_registry concurrently, each again and again
NextThreads == \E t \in Threads : GetRegistry(t)
SpecThreads == Init /\ [][NextThreads]_vars

\* a call of a method of the registry, or of an api function that lists it,
\* with the name it is given
Listing(operation, name, registry, result) ==
    /\ pc = "idle"
    /\ pc' = "done"
    /\ op' = operation
    /\ expression' = name
    /\ function_registry' = registry
    /\ returned' = result
    /\ UNCHANGED <<context, value, from_unit, to_unit, args, unit_registry, raised, outcome,
                   threads, instances, received, changed, evaluator, first>>
RegistryNames == Builtins \cup {"log", "x"}
Get ==
    \E name \in RegistryNames :
        Listing("get", <<name>>, get_function_registry(function_registry),
                get(get_function_registry(function_registry), name))
IsRegistered ==
    \E name \in RegistryNames :
        Listing("is_registered", <<name>>, get_function_registry(function_registry),
                Fresh("bool", is_registered(DOMAIN get_function_registry(function_registry).functions, name)))
ListAll ==
    Listing("list_all", <<>>, get_function_registry(function_registry),
            list_all(get_function_registry(function_registry)))
ListByCategory ==
    Listing("list_by_category", <<>>, get_function_registry(function_registry),
            list_by_category(get_function_registry(function_registry)))
ListFunctions ==
    Listing("list_functions", <<>>, get_function_registry(function_registry),
            list_functions(get_function_registry(function_registry)))
GetFunctionInfo ==
    \E name \in RegistryNames :
        Listing("get_function_info", <<name>>, get_function_registry(function_registry),
                get_function_info(get_function_registry(function_registry), name))

\* the caller changes the mapping the last call handed to it
ChangedKeys == {"sin", "trigonometric", "description", "log"}
Change(val) ==
    /\ op' = "change"
    /\ returned' = [returned EXCEPT !.val = val]
    /\ function_registry' = Shared(function_registry, returned.shares, val)
    /\ changed' = TRUE
    /\ UNCHANGED <<pc, expression, context, value, from_unit, to_unit, args, unit_registry,
                   raised, outcome, threads, instances, received, evaluator, first>>
ChangeReturned ==
    /\ pc = "done"
    /\ op # "change"
    /\ returned.kind = "mapping"
    /\ \E key \in ChangedKeys :
        \/ Change(SetItem(returned.val, key, <<"changed">>))
        \/ key \in DOMAIN returned.val /\ Change(DelItem(returned.val, key))

\* a session of calls of the unit functions
NextUnits ==
    \/ Convert
    \/ IsCompatible
    \/ GetConversionFactor
    \/ ConvertUnits
    \/ CheckUnitCompatibility
    \/ NextCall
SpecUnits == Init /\ [][NextUnits]_vars

\* a session of calls that read the registry, whose caller changes what it is handed
NextRegistry ==
    \/ EvaluateExpression(Inputs(Statistics))
    \/ Get
    \/ IsRegistered
    \/ ListAll
    \/ ListByCategory
    \/ ListFunctions
    \/ GetFunctionInfo
    \/ ChangeReturned
    \/ NextCall
SpecRegistry == Init /\ [][NextRegistry]_vars

\* a session of the api: evaluations, some of them failing, between conversions
\* and listings, the caller changing what the listings hand to it
SessionExpressions ==
    {<<"x">>, <<"x", "+", "1">>, <<"2", "/", "3">>, <<"1", "/", "0">>, <<"2", "+">>,
     <<"sqrt", "(", "x", ")">>, <<"sqrt", "(", "-", "1", ")">>, <<"pi">>, <<"y">>}
SessionUnits == {"kilometer", "mile", "celsius", "fahrenheit", "xyz"}
NextSession ==
    \/ EvaluateExpression(Inputs(SessionExpressions))
    \/ ConvertUnitsOf({PyInt(5), PyInt(32)}, SessionUnits)
    \/ ListAll
    \/ ListFunctions
    \/ GetFunctionInfo
    \/ ChangeReturned
    \/ KeepResult
    \/ NextCall
SpecSession == Init /\ [][NextSession]_vars

\* evaluations of calls with failing arguments
NextCalls ==
    \/ Evaluate(Inputs(CallsInOrder))
    \/ EvaluateExpression(Inputs(CallsInOrder))
    \/ NextCall
SpecCalls == Init /\ [][NextCalls]_vars

\* a session of direct calls of the registry functions
NextFunctions ==
    \/ CallFunction
    \/ NextCall
SpecFunctions == Init /\ [][NextFunctions]_vars

\* ------------------------------------------------------------------ claims
Done(operation) == pc = "done" /\ op = operation

\* the value field of the dict an api function returned: "factor" or "result"
ValueField(d) == IF "factor" \in DOMAIN d THEN d.factor ELSE d.result
IsNumber(v)   == v.k \in {"int", "float"}
NonEmpty(text) == \E i \in DOMAIN text : text[i] # ""
Discriminated(d) ==
    \/ IsNumber(ValueField(d)) /\ d.error.none
    \/ ValueField(d) = NoVal /\ ~d.error.none /\ NonEmpty(d.error.text)

\* C1: evaluate_expression, convert_units and get_conversion_factor_api return,
\* for every input, either a number in the value field with error null, or a
\* null value field with a non-empty error message
C1_DiscriminatedResult ==
    pc = "done" /\ op \in {"evaluate_expression", "convert_units", "get_conversion_factor_api"}
        => outcome.exc = "none" /\ Discriminated(outcome.val)

\* a conversion between incompatible units has returned the error alone
C1_Witness ==
    /\ Done("convert_units")
    /\ from_unit = "meter" /\ to_unit = "gram"
    /\ outcome.exc = "none"
    /\ outcome.val.result = NoVal
    /\ outcome.val.error = Text(<<"Cannot convert ", "meter", " to ", "gram", ": incompatible units">>)

ApiOperations ==
    {"evaluate_expression", "convert_units", "check_unit_compatibility",
     "get_conversion_factor_api"}

\* C2: no api call lets an exception escape: what the try block raised comes
\* back as the error message, as it is for a calculator error and behind the
\* prefix "Unexpected error" for any other exception
C2_NoExceptionEscapes ==
    pc = "done" /\ op \in ApiOperations =>
        /\ outcome.exc = "none"
        /\ raised.exc # "none" =>
            /\ ~outcome.val.error.none
            /\ IF IsInstance(raised.exc, "calc.CalculatorException")
               THEN outcome.val.error.text = raised.msg
               ELSE /\ Head(outcome.val.error.text) = "Unexpected error: "
                    /\ Tail(outcome.val.error.text) = raised.msg

\* get_conversion_factor_api has returned the failure of the unit library as an
\* unexpected error
C2_Witness ==
    /\ Done("get_conversion_factor_api")
    /\ ~IsInstance(raised.exc, "calc.CalculatorException")
    /\ IsInstance(raised.exc, "pint.PintError")
    /\ outcome.exc = "none"
    /\ Head(outcome.val.error.text) = "Unexpected error: "

\* C3: evaluate raises the calculator's SyntaxError for every input that
\* ast.parse rejects: the empty string, blanks, unbalanced parentheses, a
\* missing operand, two operators in a row
C3_UnparseableRaisesSyntaxError ==
    Done("evaluate") /\ ast_parse(expression).exc # "none"
        => outcome.exc = "calc.SyntaxError"

\* the names that are neither registered functions nor constants
UnknownCallees == NameTokens \ Builtins
UnknownCall(e) == e \in Call1(UnknownCallees, Arguments)
UnknownIdentifier(e, c) ==
    Len(e) = 1 /\ e[1] \in NameTokens \ {"pi", "e"} /\ e[1] \notin DOMAIN c

\* C4: a call of an unregistered name and an identifier without a binding make
\* evaluate fail with the calculator's SyntaxError
C4_UnknownNameIsSyntaxError ==
    Done("evaluate") /\ (UnknownCall(expression) \/ UnknownIdentifier(expression, context))
        => outcome.exc = "calc.SyntaxError"

\* the number of parentheses open after the first i tokens of e
RECURSIVE Depth(_, _)
Depth(e, i) ==
    IF i = 0 THEN 0
    ELSE Depth(e, i - 1) + (IF e[i] = "(" THEN 1 ELSE IF e[i] = ")" THEN -1 ELSE 0)

\* e is f ( ... ) or ( ... ), with the last parenthesis closing the first
Wraps(e) ==
    /\ Len(e) >= 3
    /\ e[Len(e)] = ")"
    /\ \/ e[1] = "("
       \/ e[1] \in Builtins /\ e[2] = "("
    /\ \A i \in 2..(Len(e) - 1) : Depth(e, i) > 0
Unwrap(e) == SubSeq(e, IF e[1] = "(" THEN 2 ELSE 3, Len(e) - 1)

\* e ends with a division or a modulo of a well-defined operand by the literal 0
DividesByZero(e, c) ==
    /\ Len(e) >= 3
    /\ e[Len(e)] = "0"
    /\ e[Len(e) - 1] \in {"/", "%"}
    /\ evaluate(SubSeq(e, 1, Len(e) - 2), c, Builtins).exc = "none"

RECURSIVE PerformsDivisionByZero(_, _)
PerformsDivisionByZero(e, c) ==
    IF Wraps(e) THEN PerformsDivisionByZero(Unwrap(e), c) ELSE DividesByZero(e, c)

HasFragment(text, fragment) == \E i \in DOMAIN text : text[i] = fragment

\* C5: a division or a modulo by zero, at top level, in parentheses or inside
\* the argument of a call, makes evaluate raise EvaluationError with the message
\* "Division by zero" and evaluate_expression return that message with no result
C5_DivisionByZeroMessage ==
    pc = "done" /\ op \in {"evaluate", "evaluate_expression"}
        /\ PerformsDivisionByZero(expression, context)
    => IF op = "evaluate"
       THEN outcome.exc = "calc.EvaluationError" /\ Head(outcome.msg) = "Division by zero"
       ELSE /\ outcome.exc = "none"
            /\ outcome.val.result = NoVal
            /\ ~outcome.val.error.none
            /\ HasFragment(outcome.val.error.text, "Division by zero")

\* what holds of the code: the same when no operand is an imaginary literal
C5_RealDivisionByZero ==
    (\A i \in DOMAIN expression : expression[i] # "2j") => C5_DivisionByZeroMessage
\* sqrt(sqrt(x % 0)) has been evaluated
C5_RealWitness ==
    /\ Done("evaluate")
    /\ expression = <<"sqrt", "(", "sqrt", "(", "x", "%", "0", ")", ")">>
    /\ Head(outcome.msg) = "Division by zero"

\* the value of an argument written as a literal or as a negated literal
IsLiteralArgument(a) ==
    \/ Len(a) = 1 /\ a[1] \in NumberTokens \ {"2j"}
    \/ Len(a) = 2 /\ a[1] = "-" /\ a[2] \in NumberTokens \ {"2j"}
ArgumentValue(a) ==
    IF Len(a) = 1 THEN NumberValue(a[1]).re ELSE QNeg(NumberValue(a[2]).re)

\* the arguments for which the function f is not defined, for one argument x
\* and for two arguments x, y
OutsideDomain1(f, x) ==
    \/ f = "sqrt" /\ QLess(x, QZero)
    \/ f \in {"log10", "ln"} /\ ~QLess(QZero, x)
    \/ f \in {"asin", "acos"} /\ (QLess(x, <<-1, 1>>) \/ QLess(QOne, x))
OutsideDomain2(f, x, y) ==
    \/ f = "power" /\ x = QZero /\ ~QLess(QZero, y)
    \/ f = "power" /\ QLess(x, QZero) /\ ~QIsInt(y)
    \/ f = "logn" /\ (~QLess(QZero, x) \/ ~QLess(QZero, y) \/ y = QOne)
    \/ f = "nthroot" /\ ~QLess(QZero, y)

\* e is a call of a registered function with literal arguments outside its domain
DomainViolation(e) ==
    \/ \E f \in Builtins, a \in Arguments \cup Atoms :
        /\ e = <<f, "(">> \o a \o <<")">>
        /\ IsLiteralArgument(a)
        /\ OutsideDomain1(f, ArgumentValue(a))
    \/ \E f \in Builtins, a \in Arguments, b \in Arguments :
        /\ e = <<f, "(">> \o a \o <<",">> \o b \o <<")">>
        /\ IsLiteralArgument(a) /\ IsLiteralArgument(b)
        /\ OutsideDomain2(f, ArgumentValue(a), ArgumentValue(b))
\* ... or such a call as the argument of another call, or in parentheses
NestedDomainViolation(e) ==
    DomainViolation(e) \/ (Wraps(e) /\ DomainViolation(Unwrap(e)))

\* C6: a call of a registered function outside its domain, nested in another
\* call or not, makes evaluate raise EvaluationError, and evaluate_expression
\* return an error and no result
C6_DomainViolationIsEvaluationError ==
    pc = "done" /\ op \in {"evaluate", "evaluate_expression"}
        /\ NestedDomainViolation(expression)
    => IF op = "evaluate"
       THEN outcome.exc = "calc.EvaluationError"
       ELSE /\ outcome.exc = "none"
            /\ outcome.val.result = NoVal
            /\ ~outcome.val.error.none

\* sqrt(log10(-1)) has failed with the wrapped error of log10
C6_Witness ==
    /\ Done("evaluate")
    /\ expression = <<"sqrt", "(", "log10", "(", "-", "1", ")", ")">>
    /\ outcome.exc = "calc.EvaluationError"
    /\ Head(outcome.msg) = "Evaluation error: "
    /\ HasFragment(outcome.msg, "Function call failed: ")
\* power(0, 0) has failed
C6_WitnessPower ==
    /\ Done("evaluate_expression")
    /\ expression = <<"power", "(", "0", ",", "0", ")">>
    /\ outcome.val.result = NoVal

\* the tokens that only occur in elements outside the restricted grammar
OutsideGrammar == {"<", "and", "&", "//", "[", "~", ".", "=", "True", "'a'"}

\* C7: an expression with an element outside the restricted grammar (a
\* comparison, a boolean or bitwise operator, floor division, a boolean, string
\* or list literal, an attribute, a subscript, a keyword argument) does not
\* evaluate to a number
C7_OutsideGrammarFails ==
    pc = "done" /\ op \in {"evaluate", "evaluate_expression"}
        /\ (\E i \in DOMAIN expression : expression[i] \in OutsideGrammar)
    => IF op = "evaluate" THEN outcome.exc # "none" ELSE outcome.val.result = NoVal

\* what holds of the code: the same without boolean literals and keyword arguments
C7_WithoutBooleanAndKeyword ==
    (\A i \in DOMAIN expression : expression[i] \notin {"True", "="})
        => C7_OutsideGrammarFails

\* C8: the identifiers pi and e evaluate to the constants whatever the context
\* binds them to; any other identifier evaluates to its value in the context,
\* and fails with "Unknown variable" when the context does not bind it
C8_NameResolution ==
    Done("evaluate") /\ Len(expression) = 1 /\ expression[1] \in NameTokens
    => LET name == expression[1]
       IN  IF name = "pi" THEN outcome = Ok(PI)
           ELSE IF name = "e" THEN outcome = Ok(E)
           ELSE IF name \in DOMAIN context THEN outcome = Ok(context[name])
           ELSE outcome.exc # "none" /\ HasFragment(outcome.msg, "Unknown variable: ")

\* pi has been evaluated in a context that binds pi to 7
C8_Witness ==
    /\ Done("evaluate")
    /\ expression = <<"pi">>
    /\ "pi" \in DOMAIN context
    /\ context["pi"] = PyInt(7)
    /\ outcome = Ok(PI)
\* a bound and an unbound identifier have been evaluated
C8_WitnessBound ==
    Done("evaluate") /\ expression = <<"x">> /\ outcome = Ok(PyInt(3))
C8_WitnessUnbound ==
    Done("evaluate") /\ expression = <<"y">> /\ outcome.exc = "calc.EvaluationError"

\* The reference evaluation of the arithmetic grammar
\*     sum ::= sum (+|-) term | term         term  ::= term (*|/|%) unary | unary
\*     unary ::= (+|-) unary | power         power ::= atom ** unary | atom
\*     atom ::= literal | ( sum )
\* by splitting the token sequence at the operator that is applied last.
ReferenceLiterals == {"0", "2", "3"}
\* the positions of e with one of the binary operators ops outside parentheses
Splits(e, ops) ==
    {i \in 2..(Len(e) - 1) :
        /\ e[i] \in ops
        /\ Depth(e, i) = 0
        /\ e[i - 1] \in ReferenceLiterals \cup {")"}}
Last(S)  == CHOOSE i \in S : \A j \in S : j <= i
First(S) == CHOOSE i \in S : \A j \in S : i <= j
NotArithmetic == Raise("Malformed", <<>>)

\* the arithmetic of two values
ReferenceApply(o, l, r) ==
    IF l.exc # "none" THEN l
    ELSE IF r.exc # "none" THEN r
    ELSE CASE o = "+"  -> operator_add(l.val, r.val)
           [] o = "-"  -> operator_sub(l.val, r.val)
           [] o = "*"  -> operator_mul(l.val, r.val)
           [] o = "/"  -> operator_truediv(l.val, r.val)
           [] o = "%"  -> operator_mod(l.val, r.val)
           [] o = "**" -> operator_pow(l.val, r.val)
ReferenceSign(o, v) ==
    IF v.exc # "none" THEN v
    ELSE IF o = "-" THEN operator_neg(v.val) ELSE operator_pos(v.val)

RECURSIVE Reference(_)
ReferenceSplit(e, i) ==
    ReferenceApply(e[i], Reference(SubSeq(e, 1, i - 1)), Reference(SubSeq(e, i + 1, Len(e))))
Reference(e) ==
    IF e = <<>> THEN NotArithmetic
    ELSE IF Splits(e, {"+", "-"}) # {} THEN ReferenceSplit(e, Last(Splits(e, {"+", "-"})))
    ELSE IF Splits(e, {"*", "/", "%"}) # {}
    THEN ReferenceSplit(e, Last(Splits(e, {"*", "/", "%"})))
    ELSE IF e[1] \in {"+", "-"} THEN ReferenceSign(e[1], Reference(Tail(e)))
    ELSE IF Splits(e, {"**"}) # {} THEN ReferenceSplit(e, First(Splits(e, {"**"})))
    ELSE IF Len(e) = 1 /\ e[1] \in ReferenceLiterals THEN Ok(NumberValue(e[1]))
    ELSE IF Wraps(e) /\ e[1] = "(" THEN Reference(Unwrap(e))
    ELSE NotArithmetic

\* C9: for an expression of literals, parentheses, unary + and - and the binary
\* operators + - * / % **, without a division by zero, evaluate returns the
\* value of the reference evaluation
C9_ArithmeticEqualsReference ==
    Done("evaluate") /\ Reference(expression).exc = "none"
        => outcome = Reference(expression)

\* - 2 ** 2 has evaluated to -4
C9_Witness ==
    /\ Done("evaluate")
    /\ expression = <<"-", "2", "**", "2">>
    /\ Reference(expression) = Ok(PyInt(-4))
    /\ outcome = Ok(PyInt(-4))
\* 2 ** 3 ** 2 has evaluated to 512, 3 - 2 - 2 to -1 and - - 3 - 2 to 1
C9_WitnessRight ==
    Done("evaluate") /\ expression = <<"2", "**", "3", "**", "2">> /\ outcome = Ok(PyInt(512))
C9_WitnessLeft ==
    Done("evaluate") /\ expression = <<"3", "-", "2", "-", "2">> /\ outcome = Ok(PyInt(-1))
C9_WitnessSigns ==
    Done("evaluate") /\ expression = <<"-", "-", "3", "-", "2">> /\ outcome = Ok(PyInt(1))

\* C10: log(x) evaluates to what log10(x) evaluates to and log(x, base) to what
\* logn(x, base) evaluates to; where these fail, log fails with EvaluationError
C10_LogAlias ==
    Done("evaluate") /\ Len(expression) >= 4 /\ expression[1] = "log" /\ expression[2] = "("
    => LET name  == IF \E i \in DOMAIN expression : expression[i] = "," THEN "logn" ELSE "log10"
           alias == evaluate(<<name>> \o Tail(expression), context, Builtins)
       IN  IF alias.exc = "none" THEN outcome = alias
           ELSE outcome.exc = "calc.EvaluationError"

\* a numeric literal with a dot that has no digit on one side
BareDotLiterals == {".5", "5."}

\* C11: an expression with a numeric literal that has a bare leading or
\* trailing dot, as .5 + 2 and 5. + 2, is rejected and does not evaluate to a
\* number
C11_BareDotRejected ==
    pc = "done" /\ op \in {"evaluate", "evaluate_expression"}
        /\ (\E i \in DOMAIN expression : expression[i] \in BareDotLiterals)
    => IF op = "evaluate" THEN outcome.exc # "none" ELSE outcome.val.result = NoVal

\* the literal arguments of a call f ( a1 , ... , an ): the tokens at the even
\* places after the parenthesis
IsLiteralCall(e, f) ==
    /\ Len(e) >= 4 /\ Len(e) % 2 = 0
    /\ e[1] = f /\ e[2] = "(" /\ e[Len(e)] = ")"
    /\ \A i \in 3..(Len(e) - 1) :
        IF i % 2 = 1 THEN e[i] \in NumberTokens \ {"2j"} ELSE e[i] = ","
RECURSIVE SumOfLiterals(_, _)
SumOfLiterals(e, i) ==
    IF i > Len(e) - 1 THEN QZero
    ELSE QAdd(NumberValue(e[i]).re, SumOfLiterals(e, i + 2))
MeanOfLiterals(e) == QDiv(SumOfLiterals(e, 3), <<(Len(e) - 2) \div 2, 1>>)

\* C12: mean(a1, ..., an) with n >= 1 numeric arguments evaluates to
\* (a1 + ... + an) / n
C12_MeanOfArguments ==
    Done("evaluate") /\ IsLiteralCall(expression, "mean")
        => outcome.exc = "none" /\ outcome.val.re = MeanOfLiterals(expression)

\* C13: every value evaluate returns is a real number; an expression with a
\* complex value (a negative base with a non-integer exponent, nthroot of a
\* negative number with a non-integer degree, an imaginary literal) fails
C13_RealValuesOnly ==
    Done("evaluate") /\ outcome.exc = "none" => ~IsComplex(outcome.val)


\* the inputs the domain of a checked function holds: a NaN is in no interval
DomainChecked == {"asin", "acos", "sqrt", "log10", "ln", "logn"}
AtLeast(v, n) == ~IsNaN(v) /\ v.re[1] >= n * v.re[2]
AtMost(v, n)  == ~IsNaN(v) /\ v.re[1] <= n * v.re[2]
Above(v, n)   == ~IsNaN(v) /\ v.re[1] > n * v.re[2]
InDomain(f, a) ==
    CASE f \in {"asin", "acos"} -> AtLeast(a[1], -1) /\ AtMost(a[1], 1)
      [] f = "sqrt"             -> AtLeast(a[1], 0)
      [] f \in {"log10", "ln"}  -> Above(a[1], 0)
      [] f = "logn"             -> Above(a[1], 0) /\ Above(a[2], 0) /\ ~(AtLeast(a[2], 1) /\ AtMost(a[2], 1))
\* the arguments that put a call outside the domain
Offending(f, a) ==
    IF f = "logn"
    THEN {i \in {1, 2} : IF i = 1 THEN ~Above(a[1], 0)
                                  ELSE ~Above(a[2], 0) \/ (AtLeast(a[2], 1) /\ AtMost(a[2], 1))}
    ELSE {1}

\* C14: asin and acos accept exactly [-1, 1], sqrt exactly x >= 0, log10 and ln
\* exactly x > 0, logn exactly x > 0 with base > 0 and base # 1: a call with an
\* accepted input does not raise, and every other call raises a DomainError whose
\* message names an offending input
C14_ExactDomainChecks ==
    Done("call") /\ expression[1] \in DomainChecked
        => IF InDomain(expression[1], args)
           THEN outcome.exc = "none"
           ELSE /\ outcome.exc = "calc.DomainError"
                /\ \E i \in Offending(expression[1], args) : HasFragment(outcome.msg, PyStr(args[i]))


Below(v, n)  == ~IsNaN(v) /\ v.re[1] < n * v.re[2]
IsInteger(v) == ~IsNaN(v) /\ v.re[2] = 1
\* q ** n for an integer n
PowerOf(q, n) == IF n >= 0 THEN QPowNat(q, n) ELSE QDiv(QOne, QPowNat(q, -n))
\* q >= 0 has a rational n-th root
HasRoot(q, n) == QPowNat(<<IRoot(q[1], n), IRoot(q[2], n)>>, n) = q
\* r is x ** y, for x >= 0 or an integer y: exactly where the power is rational
IsPower(r, x, y) ==
    IF IsNaN(x) \/ IsNaN(y) THEN TRUE
    ELSE IF IsInteger(y) THEN r.re = PowerOf(x.re, y.re[1]) /\ r.im = QZero
    ELSE /\ ~IsComplex(r) /\ ~IsNaN(r) /\ r.re[1] >= 0
         /\ HasRoot(PowerOf(x.re, y.re[1]), y.re[2])
                => PowerOf(r.re, y.re[2]) = PowerOf(x.re, y.re[1])
PowerUndefined(x, y) ==
    \/ ~IsNaN(x) /\ x.re[1] = 0 /\ AtMost(y, 0)
    \/ Below(x, 0) /\ ~IsInteger(y)
NthrootUndefined(x, n) ==
    \/ AtMost(n, 0)
    \/ Below(x, 0) /\ IsInteger(n) /\ n.re[1] % 2 = 0
OddRootOfNegative(x, n) == Below(x, 0) /\ IsInteger(n) /\ n.re[1] > 0 /\ n.re[1] % 2 = 1

\* C15: power(x, y) raises DomainError exactly when x = 0 and y <= 0 or x < 0 and
\* y is not an integer, and otherwise returns x ** y; nthroot(x, n) raises
\* DomainError exactly when n <= 0 or x < 0 and n is an even integer, and returns
\* the negative real root -(|x| ** (1 / n)) for x < 0 and an odd integer n
C15_PowerAndNthroot ==
    /\ Done("call") /\ expression = <<"power">>
        => IF PowerUndefined(args[1], args[2])
           THEN outcome.exc = "calc.DomainError"
           ELSE outcome.exc = "none" /\ IsPower(outcome.val, args[1], args[2])
    /\ Done("call") /\ expression = <<"nthroot">>
        => /\ outcome.exc = "calc.DomainError" <=> NthrootUndefined(args[1], args[2])
           /\ OddRootOfNegative(args[1], args[2])
                => /\ outcome.exc = "none" /\ ~IsComplex(outcome.val) /\ outcome.val.re[1] < 0
                   /\ HasRoot(QNeg(args[1].re), args[2].re[1])
                        => PowerOf(QNeg(outcome.val.re), args[2].re[1]) = QNeg(args[1].re)


Ordinary(v) == ~IsNaN(v) /\ ~IsTooLarge(v)
QAbs(q) == <<Abs(q[1]), q[2]>>
\* the rounding of two squares of values of the grid
SquaresTolerance == <<4, Precision>>
\* |s ** 2 + c ** 2 - 1|
Pythagoras(s, c) == QAbs(QSub(QAdd(QMul(s, s), QMul(c, c)), QOne))
Identity(s, c) ==
    s.exc = "none" /\ c.exc = "none" => ~QLess(SquaresTolerance, Pythagoras(s.val.re, c.val.re))
\* the values the conversions between degrees and radians give
DegreeTable ==
    {<<"sin", 90, 1>>, <<"sin", 0, 0>>, <<"cos", 0, 1>>, <<"cos", 180, -1>>, <<"tan", 0, 0>>,
     <<"asin", 1, 90>>, <<"asin", 0, 0>>, <<"asin", -1, -90>>, <<"acos", 1, 0>>, <<"acos", 0, 90>>,
     <<"acos", -1, 180>>, <<"atan", 1, 45>>, <<"atan", 0, 0>>, <<"atan", -1, -45>>}

C16_WitnessHalfPi ==
    Done("call") /\ expression = <<"sin">> /\ args = <<HalfPi>> /\ outcome.exc = "none"
C16_WitnessInverse ==
    Done("call") /\ expression = <<"asin">> /\ args = <<PyFloat(1, 2)>> /\ outcome = Ok(PyFloat(30, 1))


\* C17: under every interleaving of concurrent first calls of get_registry,
\* FunctionRegistry is instantiated once and every call returns that instance
C17_ConstructedOnce ==
    instances <= 1 /\ Cardinality(received) <= 1


\* C18: once the registry exists, no call that reads it and no change of a
\* mapping or list it handed out adds, removes or replaces an entry: the names
\* and their implementations stay the 18 built-ins, and every later call
\* returns what it returned before
C18_RegistryReadOnly ==
    /\ Cardinality(Builtins) = 18
    /\ function_registry.created
        => /\ function_registry.names = Builtins
           /\ function_registry.functions = [n \in Builtins |-> n]
           /\ function_registry.descriptions = [n \in Builtins |-> Description(n)]
    /\ Done("list_all") => returned = list_all(FunctionRegistry(1))
    /\ Done("list_by_category") \/ Done("list_functions")
        => returned = list_by_category(FunctionRegistry(1))
    /\ Done("get_function_info")
        => returned = get_function_info(FunctionRegistry(1), expression[1])
    /\ Done("get") => returned = get(FunctionRegistry(1), expression[1])
    /\ Done("is_registered") => returned.val = (expression[1] \in Builtins)
C18_Witness ==
    Done("list_all") /\ changed /\ returned.val["sin"] = Description("sin")


\* the dimension category of a unit name the system recognizes: the names of
\* its tables, the temperature aliases, and the second of its tests
Category(name) ==
    CASE name \in {"meter", "kilometer", "mile"} -> "distance"
      [] name \in {"gram", "kilogram"}   -> "mass"
      [] name = "liter"                  -> "volume"
      [] name = "second"                 -> "time"
      [] name \in {"celsius", "fahrenheit", "kelvin", "Celsius", "FAHRENHEIT", "C", "F", "K", "c",
                   "f", "k"} -> "temperature"
      [] OTHER                           -> "none"
Recognized(name) == Category(name) # "none"
\* the registry was there, or was set up without an error
RegistryReady == raised.exc = "none"

\* C19: convert fails with UnitError when a unit name is unrecognized and with
\* the calculator's DimensionalityError, whose message names both units, when
\* both are recognized but of different categories; no other exception leaves it
C19_ConvertErrors ==
    Done("convert") /\ RegistryReady
        => /\ ~Recognized(from_unit) \/ ~Recognized(to_unit) => outcome.exc = "calc.UnitError"
           /\ Recognized(from_unit) /\ Recognized(to_unit) /\ Category(from_unit) # Category(to_unit)
                => /\ outcome.exc = "calc.DimensionalityError"
                   /\ HasFragment(outcome.msg, from_unit) /\ HasFragment(outcome.msg, to_unit)


\* C20: for recognized names is_compatible returns whether the two categories
\* are the same, symmetrically, and check_unit_compatibility then reports no
\* error; for an unrecognized name is_compatible raises UnitError and never
\* returns false
C20_CompatibleIffSameCategory ==
    /\ Done("is_compatible") /\ RegistryReady
        => IF Recognized(from_unit) /\ Recognized(to_unit)
           THEN /\ outcome.exc = "none"
                /\ outcome.val.re = QOne <=> Category(from_unit) = Category(to_unit)
                /\ Bool(is_compatible(to_unit, from_unit, [out |-> Ok("ready")])) = outcome
           ELSE outcome.exc = "calc.UnitError"
    /\ Done("check_unit_compatibility") /\ Recognized(from_unit) /\ Recognized(to_unit)
            /\ raised.exc = "none"
        => /\ outcome.exc = "none" /\ outcome.val.error = None
           /\ outcome.val.compatible <=> Category(from_unit) = Category(to_unit)


\* the spellings of the three temperature scales
CelsiusNames    == {"celsius", "Celsius", "C", "c"}
FahrenheitNames == {"fahrenheit", "FAHRENHEIT", "F", "f"}
KelvinNames     == {"kelvin", "K", "k"}
Scale(name) ==
    CASE name \in CelsiusNames    -> "celsius"
      [] name \in FahrenheitNames -> "fahrenheit"
      [] name \in KelvinNames     -> "kelvin"
      [] OTHER                    -> "none"
\* the canonical formulas
CelsiusToFahrenheit(v) == QAdd(QDiv(QMul(v, <<9, 1>>), <<5, 1>>), <<32, 1>>)
FahrenheitToCelsius(v) == QDiv(QMul(QSub(v, <<32, 1>>), <<5, 1>>), <<9, 1>>)
CelsiusToKelvin(v)     == QAdd(v, <<27315, 100>>)
KelvinToCelsius(v)     == QSub(v, <<27315, 100>>)
Canonical(v, from, to) ==
    CASE from = "celsius" /\ to = "fahrenheit" -> CelsiusToFahrenheit(v)
      [] from = "fahrenheit" /\ to = "celsius" -> FahrenheitToCelsius(v)
      [] from = "celsius" /\ to = "kelvin"     -> CelsiusToKelvin(v)
      [] from = "kelvin" /\ to = "celsius"     -> KelvinToCelsius(v)
      [] from = "fahrenheit" /\ to = "kelvin"  -> CelsiusToKelvin(FahrenheitToCelsius(v))
      [] from = "kelvin" /\ to = "fahrenheit"  -> CelsiusToFahrenheit(KelvinToCelsius(v))
TwoScales(from, to) == Scale(from) # "none" /\ Scale(to) # "none" /\ Scale(from) # Scale(to)

\* C21: between two different temperature scales, each named by its full name
\* or its alias in any letter case, convert returns the value of the canonical
\* formula (Fahrenheit and Kelvin composed through Celsius), so the result is
\* the same for every spelling of the two scales
C21_TemperatureFormulas ==
    Done("convert") /\ RegistryReady /\ TwoScales(from_unit, to_unit)
        => outcome = ToFloat(Canonical(value.re, Scale(from_unit), Scale(to_unit)))
C21_Witness ==
    /\ Done("convert") /\ from_unit = "C" /\ to_unit = "FAHRENHEIT" /\ value = PyInt(100)
    /\ outcome = Ok(PyFloat(212, 1))
C21_WitnessComposed ==
    /\ Done("convert") /\ from_unit = "f" /\ to_unit = "K" /\ value = PyInt(32)
    /\ outcome = Ok(PyFloat(27315, 100))


\* the registry every call finds once it is set up
Ready == [registry |-> "ready", out |-> Ok("ready")]
\* v * f, whatever its size
Times(v, f) == Rat(v[1] * f[1], v[2] * f[2])
\* convert(v, a, b) = v * f, for the values v whose conversion the model has
IsFactor(f, a, b) ==
    \A v \in Values :
        convert(v, a, b, Ready).exc # "OutOfModel"
            => convert(v, a, b, Ready) = Ok(Num("float", Times(v.re, f.re), QZero))

\* C22: a factor that get_conversion_factor(a, b) returns is convert(1.0, a, b)
\* and convert(v, a, b) = v * factor for every v; for recognized units of
\* different categories it raises DimensionalityError, for an unrecognized
\* unit UnitError
C22_FactorIsMultiplicative ==
    Done("get_conversion_factor") /\ RegistryReady
        => /\ outcome.exc = "none"
                => /\ outcome = convert(Num("float", QOne, QZero), from_unit, to_unit, Ready)
                   /\ IsFactor(outcome.val, from_unit, to_unit)
           /\ Recognized(from_unit) /\ Recognized(to_unit) /\ Category(from_unit) # Category(to_unit)
                => outcome.exc = "calc.DimensionalityError"
           /\ ~Recognized(from_unit) \/ ~Recognized(to_unit) => outcome.exc = "calc.UnitError"


\* the units the system itself calls compatible
Compatible(a, b) == is_compatible(a, b, Ready) = Ok(TRUE)
\* converting the result r of convert(x, a, b) back gives x, where the model
\* has the conversion back
ComesBack(r, x, a, b) ==
    InRange(r.re) /\ convert(r, b, a, Ready).exc # "OutOfModel"
        => convert(r, b, a, Ready) = float(x)

\* C23: for every pair of compatible units A and B and every value x,
\* convert(x, A, B) returns a number and convert(convert(x, A, B), B, A) is x
C23_RoundTrip ==
    Done("convert") /\ RegistryReady /\ Compatible(from_unit, to_unit)
        => outcome.exc = "none" /\ ComesBack(outcome.val, value, from_unit, to_unit)


\* r is a multiple of 1/100000 and no other multiple is nearer to x: m is r in
\* units of 1/100000, p the first five decimals of |x| and what is behind them
IsNearest(m, whole, p, d) ==
    \/ m = whole * 100000 + p[1] /\ 2 * p[2] <= d
    \/ m = whole * 100000 + p[1] + 1 /\ 2 * p[2] >= d
FiveDecimals(r, x) ==
    /\ 100000 % r[2] = 0
    /\ r[1] < 0 => x[1] < 0
    /\ IsNearest(Abs(r[1]) * (100000 \div r[2]), Abs(x[1]) \div x[2],
                 Decimals(Abs(x[1]) % x[2], x[2], 5), x[2])
Succeeded(operation) == Done(operation) /\ raised.exc = "none" /\ outcome.val.error = None

\* C24: the result of convert_units is the value of convert rounded to 5
\* decimal places, 3.10686 for 5 kilometers in miles and 0.0 for 32 degrees
\* Fahrenheit in Celsius, both without an error; the result of
\* evaluate_expression is the evaluator's value as a float, not rounded
C24_RoundingOnlyInConversions ==
    /\ Succeeded("convert_units")
        => /\ convert(value, from_unit, to_unit, Ready).exc = "none"
           /\ FiveDecimals(outcome.val.result.re, convert(value, from_unit, to_unit, Ready).val.re)
    /\ Done("convert_units") /\ raised.exc = "none" /\ value = PyInt(5)
            /\ from_unit = "kilometer" /\ to_unit = "mile"
        => outcome.val.result = PyFloat(310686, 100000) /\ outcome.val.error = None
    /\ Done("convert_units") /\ raised.exc = "none" /\ value = PyInt(32)
            /\ from_unit = "fahrenheit" /\ to_unit = "celsius"
        => outcome.val.result = PyFloat(0, 1) /\ outcome.val.error = None
    /\ Succeeded("evaluate_expression")
        => Ok(outcome.val.result) = float(evaluate(expression, context, function_registry.names).val)
C24_Witness ==
    /\ Succeeded("convert_units") /\ value = PyInt(5) /\ from_unit = "kilometer"
    /\ to_unit = "mile" /\ outcome.val.result.re = <<155343, 50000>>
C24_WitnessUnrounded ==
    /\ Succeeded("evaluate_expression") /\ outcome.val.result.re = <<2, 3>>


\* C25: an evaluation of the expression and the context of an earlier
\* evaluation returns what the earlier one returned, result and error,
\* whatever calls were made in between
C25_SameResultEveryTime ==
    Done("evaluate_expression") /\ first.set /\ expression = first.expression
            /\ context = first.context
        => outcome = first.outcome
\* between the two evaluations the unit registry was made, a listing was
\* changed by the caller, and another context was in use
C25_Witness ==
    /\ Done("evaluate_expression") /\ first.set /\ expression = first.expression
    /\ context = first.context /\ expression = <<"x">> /\ context = NoContext
    /\ changed /\ unit_registry # "None" /\ first.outcome.val.result = NoVal
C25_WitnessValue ==
    /\ Done("evaluate_expression") /\ first.set /\ expression = first.expression
    /\ context = first.context /\ expression = <<"x", "+", "1">> /\ context # NoContext
    /\ changed /\ unit_registry # "None" /\ first.outcome.val.error = None


\* the names that only the context c binds: pi and e are constants
OnlyBound(c) == DOMAIN c \ {"pi", "e"}
\* the names of an expression
Names(e) == {e[i] : i \in DOMAIN e}
UnknownVariable(d, name) ==
    /\ d.result = NoVal
    /\ ~d.error.none
    /\ HasFragment(d.error.text, "Unknown variable: ") /\ HasFragment(d.error.text, name)

\* C27: a context belongs to one call: an evaluation without a context after
\* an evaluation with the context c fails with unknown variable for a name
\* that only c bound, and after every evaluation, successful or failing, the
\* caller's mapping has the entries it was passed with
C27_ContextPerCall ==
    /\ Done("evaluate_expression") /\ context = NoContext /\ first.set
        => \A name \in OnlyBound(first.context) \cap Names(expression) :
                outcome.exc = "none" /\ UnknownVariable(outcome.val, name)
    /\ Done("evaluate_expression") => evaluator.context = context
C27_Witness ==
    /\ Done("evaluate_expression") /\ context = NoContext /\ first.set
    /\ first.context # NoContext /\ first.outcome.val.error = None
    /\ expression = <<"x", "+", "1">> /\ "x" \in OnlyBound(first.context)
    /\ outcome.val.result = NoVal
C27_WitnessFailing ==
    /\ Done("evaluate_expression") /\ context # NoContext /\ outcome.val.result = NoVal
    /\ evaluator.context = context


\* what evaluating the argument a on its own gives in the context of the call
Alone(a) == evaluate(a, context, Builtins)
UnknownFunction(r, f) ==
    /\ r.exc \in {"calc.SyntaxError", "calc.EvaluationError"}
    /\ HasFragment(r.msg, "Unknown function: ") /\ HasFragment(r.msg, f)
    /\ ~HasFragment(r.msg, "Division by zero")
\* the function f invoked with the values vals
Invoked(f, vals) == evaluate_except(visit_Call_except(f, ApplyFunction(f, vals)))
\* the outcome r of the call f(a): the name first, then the argument, then
\* the function
InOrder1(r, f, a) ==
    IF f \notin Builtins THEN UnknownFunction(r, f)
    ELSE IF a.exc # "none" THEN r = a
    ELSE r = Invoked(f, <<a.val>>)
\* the outcome r of the call f(a, b)
InOrder2(r, f, a, b) ==
    IF f \notin Builtins THEN UnknownFunction(r, f)
    ELSE IF a.exc # "none" THEN r = a
    ELSE IF b.exc # "none" THEN r = b
    ELSE r = Invoked(f, <<a.val, b.val>>)

\* C26: a call of an unregistered name fails as unknown function whatever its
\* arguments are (unknown_func(1/0) does not report the division by zero); a
\* call of a registered name fails with the failure of its leftmost failing
\* argument, and only when no argument fails is the outcome the one of the
\* function invoked with the values of the arguments
C26_CallStepsInOrder ==
    Done("evaluate")
        => /\ \A f \in Callees1, a \in FailingArguments :
                expression = <<f, "(">> \o a \o <<")">> => InOrder1(outcome, f, Alone(a))
           /\ \A f \in Callees2, a \in FailingArguments, b \in FailingArguments :
                expression = <<f, "(">> \o a \o <<",">> \o b \o <<")">>
                    => InOrder2(outcome, f, Alone(a), Alone(b))
C26_Witness ==
    /\ Done("evaluate") /\ expression = <<"unknown_func", "(", "1", "/", "0", ")">>
    /\ HasFragment(outcome.msg, "Unknown function: ")
C26_WitnessLeftmost ==
    /\ Done("evaluate") /\ expression = <<"power", "(", "1", "/", "0", ",", "y", ")">>
    /\ Head(outcome.msg) = "Division by zero"
C26_WitnessSecond ==
    /\ Done("evaluate") /\ expression = <<"logn", "(", "y", ",", "1", "/", "0", ")">>
    /\ HasFragment(outcome.msg, "Unknown variable: ")
C26_WitnessInvoked ==
    /\ Done("evaluate") /\ expression = <<"power", "(", "x", ",", "2", ")">>
    /\ context # NoContext /\ outcome = power(context["x"], PyInt(2)) /\ outcome.exc = "none"


\* get_registry raised while it set the registry up
SetupFailed == raised.exc = "pint.DefinitionSyntaxError"
SameScale(a, b) == Scale(a) # "none" /\ Scale(a) = Scale(b)

\* C28: when is_compatible(a, b) is true, convert(v, a, b) returns a number
\* and convert_units(v, a, b) a result; when a and b name the same temperature
\* scale, convert returns v
C28_CompatibleConverts ==
    /\ Done("convert") /\ ~SetupFailed /\ Compatible(from_unit, to_unit)
        => outcome.exc = "none" /\ IsNumber(outcome.val)
    /\ Done("convert_units") /\ ~SetupFailed /\ Compatible(from_unit, to_unit)
        => outcome.exc = "none" /\ IsNumber(outcome.val.result)
    /\ Done("convert") /\ ~SetupFailed /\ SameScale(from_unit, to_unit)
        => outcome = float(value)


\* the operands x and y of the expressions x ** y: a negative base is written
\* in parentheses
Bases     == (Arguments \ {<<"-", "1">>}) \cup {<<"(", "-", "4", ")">>, <<"(", "-", "1", ")">>}
Exponents == Arguments \cup {<<"0.5">>}
\* what evaluate_expression returns for power(x, y) in the context of the call
WithPower(x, y) ==
    evaluate_expression_except(
        evaluate_expression_try(<<"power", "(">> \o x \o <<",">> \o y \o <<")">>, context, Builtins))

\* C29: evaluate_expression gives for x ** y what it gives for power(x, y): an
\* error where power(x, y) fails (0 ** 0, 0 to a negative exponent, a negative
\* base with a non-integer exponent) and the same number where it is defined
C29_PowAgreesWithPower ==
    Done("evaluate_expression")
        => \A x \in Bases, y \in Exponents :
                expression = x \o <<"**">> \o y /\ WithPower(x, y).exc # "OutOfModel"
                    => outcome.val.result = WithPower(x, y).val.result


\* the unit functions that call get_registry themselves
UsesRegistry == pc = "done" /\ op \in {"convert", "is_compatible", "get_conversion_factor"}

\* C30: get_registry hands out no registry whose setup has not completed:
\* after a first call in which _setup_units failed, a call whose get_registry
\* returns works on a registry that has every definition of _setup_units
C30_NoPartialRegistry ==
    UsesRegistry /\ ~SetupFailed => unit_registry = "ready"
====
